---- MODULE Spec2Model ----
(***************************************************************************)
(* FLIP/PIC fluid solver (src/src/flip-fluid.ts) and the calls its driver  *)
(* makes.                                                                  *)
(*                                                                         *)
(* Numbers.  The solver works on JavaScript numbers stored in Float32Array *)
(* buffers.  A finite number is modelled as an integer count of 1/SCALE    *)
(* units (fixed point, every product and quotient rounded to the nearest   *)
(* unit); the one non-finite value the solver itself can produce, 0/0, is  *)
(* the distinguished value NaN, which propagates through arithmetic and    *)
(* makes every comparison false, as in IEEE 754.  Ratios passed by the     *)
(* caller (dt, damping, flipRatio, overRelaxation) are kept as exact       *)
(* fractions.  Flat arrays are functions on 0..n-1 with the index          *)
(* arithmetic of the source.                                               *)
(***************************************************************************)
EXTENDS Integers, Sequences, FiniteSets, TLC

\* ------------------------------------------------------------------------
\* Numbers
\* ------------------------------------------------------------------------

\* Fixed-point units per 1.0.
SCALE == 1000

\* The IEEE 754 not-a-number (the result of 0/0); no finite value of the
\* model comes near it.
NaN == -999999999

\* Cell types (flip-fluid.ts:9-11).
FLUID_CELL == 0
AIR_CELL == 1
SOLID_CELL == 2

IsNaN(a) == a = NaN

\* n/d rounded to the nearest integer, halves away from zero (d > 0).
Rnd(n, d) ==
  IF n >= 0 THEN (2 * n + d) \div (2 * d) ELSE -((2 * (-n) + d) \div (2 * d))

Add(a, b) == IF IsNaN(a) \/ IsNaN(b) THEN NaN ELSE a + b
Sub(a, b) == IF IsNaN(a) \/ IsNaN(b) THEN NaN ELSE a - b
\* Product of two fixed-point values.
Mul(a, b) == IF IsNaN(a) \/ IsNaN(b) THEN NaN ELSE Rnd(a * b, SCALE)
\* Quotient of two fixed-point values; 0/0 is NaN (a nonzero value is never
\* divided by zero in the solver).
Div(a, b) ==
  IF IsNaN(a) \/ IsNaN(b) \/ b = 0 THEN NaN
  ELSE IF b > 0 THEN Rnd(a * SCALE, b) ELSE Rnd(-(a * SCALE), -b)
\* n/d for a divisor that is a sum of weights or a count, so d >= 0,
\* rounded as Rnd; dividing by 0 gives no finite number.
Quot(n, d) == IF d = 0 THEN NaN ELSE Rnd(n, d)
\* JavaScript comparisons: false as soon as one side is NaN.
Lt(a, b) == ~IsNaN(a) /\ ~IsNaN(b) /\ a < b
Gt(a, b) == ~IsNaN(a) /\ ~IsNaN(b) /\ a > b

Sign(a) == IF IsNaN(a) THEN NaN ELSE IF a > 0 THEN 1 ELSE IF a < 0 THEN -1 ELSE 0

MinI(a, b) == IF a < b THEN a ELSE b
MaxI(a, b) == IF a > b THEN a ELSE b

clamp(x, min, max) == IF Lt(x, min) THEN min ELSE IF Gt(x, max) THEN max ELSE x

\* A local variable: e applied to the value of x, x computed once however
\* often e reads it.
With(x, e(_)) == CHOOSE y \in {e(v) : v \in {x}} : TRUE

\* Math.sqrt on a squared fixed-point value (units 1/SCALE^2), giving units
\* 1/SCALE rounded to nearest; the square root of NaN is NaN.
Sqrt(n) ==
  With(n, LAMBDA m :
    IF IsNaN(m) THEN NaN
    ELSE CHOOSE r \in 0..46340 : (r * r - r < m \/ r = 0) /\ m <= r * r + r)

\* a * (num/den) for an exact fraction.
Frac(a, num, den) == IF IsNaN(a) THEN NaN ELSE Rnd(a * num, den)

\* ------------------------------------------------------------------------
\* FlipFluid: construction
\* ------------------------------------------------------------------------

Zeros(n) == [k \in 0..(n - 1) |-> 0]

\* new FlipFluid(density, width, height, spacing, particleRadius,
\* maxParticles): every buffer zero-filled, no active particle.  pInvSpacing
\* is 1/(2.2 * particleRadius), so floor(x * pInvSpacing) is
\* floor(10 x / (22 r)).
FlipFluid(density, width, height, spacing, particleRadius, maxParticles) ==
  LET fNumX == (width \div spacing) + 1
      fNumY == (height \div spacing) + 1
      pNumX == ((width * 10) \div (22 * particleRadius)) + 1
      pNumY == ((height * 10) \div (22 * particleRadius)) + 1
  IN [density |-> density,
      fNumX |-> fNumX,
      fNumY |-> fNumY,
      h |-> MaxI(Rnd(width, fNumX), Rnd(height, fNumY)),
      fNumCells |-> fNumX * fNumY,
      u |-> Zeros(fNumX * fNumY),
      v |-> Zeros(fNumX * fNumY),
      du |-> Zeros(fNumX * fNumY),
      dv |-> Zeros(fNumX * fNumY),
      prevU |-> Zeros(fNumX * fNumY),
      prevV |-> Zeros(fNumX * fNumY),
      p |-> Zeros(fNumX * fNumY),
      s |-> Zeros(fNumX * fNumY),
      cellType |-> Zeros(fNumX * fNumY),
      maxParticles |-> maxParticles,
      particlePos |-> Zeros(2 * maxParticles),
      particleVel |-> Zeros(2 * maxParticles),
      particleDensity |-> Zeros(fNumX * fNumY),
      particleRestDensity |-> 0,
      particleRadius |-> particleRadius,
      pNumX |-> pNumX,
      pNumY |-> pNumY,
      pNumCells |-> pNumX * pNumY,
      numCellParticles |-> Zeros(pNumX * pNumY),
      firstCellParticle |-> Zeros(pNumX * pNumY + 1),
      cellParticleIds |-> Zeros(maxParticles),
      numParticles |-> 0]

\* ------------------------------------------------------------------------
\* FlipFluid.integrateParticles
\* ------------------------------------------------------------------------

\* v -= v * v * damping * Math.sign(v), damping = dampNum/dampDen.
Damp(v, dampNum, dampDen) ==
  IF IsNaN(v) THEN NaN
  ELSE v - Rnd(v * v * dampNum, SCALE * dampDen) * Sign(v)

\* An integration that falls back to the default gravity when given 0.
integrateParticlesDefaultGravity(f, dtInv, gravity, dampNum, dampDen) ==
  LET g == IF gravity = 0 THEN -9810 ELSE gravity
      vel == f.particleVel
      newVel == [k \in DOMAIN vel |->
                   IF k \div 2 >= f.numParticles THEN vel[k]
                   ELSE IF k % 2 = 1
                        THEN Damp(Add(vel[k], Rnd(g, dtInv)), dampNum, dampDen)
                        ELSE Damp(vel[k], dampNum, dampDen)]
      newPos == [k \in DOMAIN f.particlePos |->
                   IF k \div 2 >= f.numParticles THEN f.particlePos[k]
                   ELSE Add(f.particlePos[k], Frac(newVel[k], 1, dtInv))]
  IN [f EXCEPT !.particleVel = newVel, !.particlePos = newPos]

\* An integration that lets gravity act on both axes.
integrateParticlesBothAxes(f, dtInv, gravity, dampNum, dampDen) ==
  LET vel == f.particleVel
      newVel == [k \in DOMAIN vel |->
                   IF k \div 2 >= f.numParticles THEN vel[k]
                   ELSE Damp(Add(vel[k], Rnd(gravity, dtInv)), dampNum, dampDen)]
      newPos == [k \in DOMAIN f.particlePos |->
                   IF k \div 2 >= f.numParticles THEN f.particlePos[k]
                   ELSE Add(f.particlePos[k], Frac(newVel[k], 1, dtInv))]
  IN [f EXCEPT !.particleVel = newVel, !.particlePos = newPos]

\* dt is 1/dtInv.  Gravity acts on the vertical component only; the drag is
\* applied per axis; then the position advances by velocity * dt.
integrateParticles(f, dtInv, gravity, dampNum, dampDen) ==
  LET vel == f.particleVel
      newVel == [k \in DOMAIN vel |->
                   IF k \div 2 >= f.numParticles THEN vel[k]
                   ELSE IF k % 2 = 1
                        THEN Damp(Add(vel[k], Rnd(gravity, dtInv)), dampNum, dampDen)
                        ELSE Damp(vel[k], dampNum, dampDen)]
      newPos == [k \in DOMAIN f.particlePos |->
                   IF k \div 2 >= f.numParticles THEN f.particlePos[k]
                   ELSE Add(f.particlePos[k], Frac(newVel[k], 1, dtInv))]
  IN [f EXCEPT !.particleVel = newVel, !.particlePos = newPos]

\* ------------------------------------------------------------------------
\* FlipFluid.pushParticlesApart
\* ------------------------------------------------------------------------

\* Math.floor(x * pInvSpacing) for a finite x.
PFloor(f, x) == (x * 10) \div (22 * f.particleRadius)

\* The hash cell of a position; NaN when the position is NaN (the clamp lets
\* NaN through, and a typed array ignores a NaN index).
HashCell(f, x, y) ==
  IF IsNaN(x) \/ IsNaN(y) THEN NaN
  ELSE clamp(PFloor(f, x), 0, f.pNumX - 1) * f.pNumY
       + clamp(PFloor(f, y), 0, f.pNumY - 1)

\* First pass: numCellParticles[cellNr]++ for particles i, i+1, ...
RECURSIVE CountCells(_, _, _)
CountCells(f, i, cnt) ==
  IF i >= f.numParticles THEN cnt
  ELSE LET cellNr == HashCell(f, f.particlePos[2 * i], f.particlePos[2 * i + 1])
       IN With(IF IsNaN(cellNr) THEN cnt ELSE [cnt EXCEPT ![cellNr] = @ + 1],
               LAMBDA next : CountCells(f, i + 1, next))

RECURSIVE SumOver(_, _)
SumOver(d, cells) ==
  IF cells = {} THEN 0
  ELSE With(CHOOSE c \in cells : TRUE, LAMBDA c :
       With(cells \ {c}, LAMBDA rest : d[c] + SumOver(d, rest)))

\* Running sums: firstCellParticle[i] is the end of cell i's run, and the
\* guard entry holds the total.  (The empty cells add nothing to a sum, so
\* only the occupied ones are added up.)
PrefixSums(f, cnt) ==
  LET ps(c) == With({b \in 0..c : cnt[b] # 0}, LAMBDA occupied : SumOver(cnt, occupied))
  IN [c \in 0..f.pNumCells |->
        IF c < f.pNumCells THEN ps(c) ELSE ps(f.pNumCells - 1)]

\* Second pass: firstCellParticle[cellNr]--, then store i at that slot.
RECURSIVE FillCells(_, _, _, _)
FillCells(f, i, first, ids) ==
  IF i >= f.numParticles THEN [first |-> first, ids |-> ids]
  ELSE LET cellNr == HashCell(f, f.particlePos[2 * i], f.particlePos[2 * i + 1])
       IN IF IsNaN(cellNr) THEN FillCells(f, i + 1, first, ids)
          ELSE With([first EXCEPT ![cellNr] = @ - 1], LAMBDA nextFirst :
               With([ids EXCEPT ![nextFirst[cellNr]] = i], LAMBDA nextIds :
                 FillCells(f, i + 1, nextFirst, nextIds)))

\* The counting sort of lines 115-141.
BuildHash(f) ==
  With(CountCells(f, 0, Zeros(f.pNumCells)), LAMBDA cnt :
  With(PrefixSums(f, cnt), LAMBDA sums :
  With(FillCells(f, 0, sums, f.cellParticleIds), LAMBDA filled :
    [f EXCEPT !.numCellParticles = cnt,
              !.firstCellParticle = filled.first,
              !.cellParticleIds = filled.ids])))

\* The hash cells the loops of lines 151-162 visit around (px, py): the 3x3
\* block cut to the grid.  xi outer and yi inner is the order of the cell
\* numbers, which is the order of cellParticleIds, and cell c holds the slots
\* firstCellParticle[c] .. firstCellParticle[c+1]-1.  Math.max/Math.min of
\* NaN is NaN, so a NaN position visits no cell.
Block(f, px, py) ==
  IF IsNaN(px) \/ IsNaN(py) THEN {}
  ELSE LET x0 == MaxI(PFloor(f, px) - 1, 0)
           x1 == MinI(PFloor(f, px) + 1, f.pNumX - 1)
           y0 == MaxI(PFloor(f, py) - 1, 0)
           y1 == MinI(PFloor(f, py) + 1, f.pNumY - 1)
       IN {xi * f.pNumY + yi : xi \in x0..x1, yi \in y0..y1}

\* The ids met in those cells, in the order of the loops.
Neighbours(f, px, py) ==
  IF IsNaN(px) \/ IsNaN(py) THEN <<>>
  ELSE With(Block(f, px, py), LAMBDA block :
       With(SelectSeq([k \in 1..f.firstCellParticle[f.pNumCells] |-> k - 1],
                      LAMBDA k : \E c \in block :
                                   /\ f.firstCellParticle[c] <= k
                                   /\ k < f.firstCellParticle[c + 1]),
            LAMBDA slots :
         [k \in 1..Len(slots) |-> f.cellParticleIds[slots[k]]]))

\* A push that moves particle i only.
SeparatePairOneSided(pos, i, id, dx, dy) ==
  [pos EXCEPT ![2 * i] = @ - dx, ![2 * i + 1] = @ - dy]

\* Lines 176-179: particle i moves by -(dx, dy), particle id by +(dx, dy).
SeparatePair(pos, i, id, dx, dy) ==
  [[pos EXCEPT ![2 * i] = @ - dx, ![2 * i + 1] = @ - dy]
     EXCEPT ![2 * id] = @ + dx, ![2 * id + 1] = @ + dy]

\* Lines 163-179 for one particle i whose position (px, py) was read before
\* the neighbour loops: st.pos are the positions, st.log records every push
\* (the pair and both positions before and after it).
RECURSIVE PushNeighbours(_, _, _, _, _, _, _)
PushNeighbours(st, i, px, py, cands, k, minDist) ==
  IF k > Len(cands) THEN st
  ELSE LET id == cands[k]
           dx == st.pos[2 * id] - px
           dy == st.pos[2 * id + 1] - py
           d2 == dx * dx + dy * dy
       IN IF id = i \/ d2 > minDist * minDist \/ d2 = 0
          THEN PushNeighbours(st, i, px, py, cands, k + 1, minDist)
          ELSE With(Sqrt(d2), LAMBDA d :
               With(Rnd((minDist - d) * SCALE, 2 * d), LAMBDA s :
               With(SeparatePair(st.pos, i, id, Rnd(dx * s, SCALE), Rnd(dy * s, SCALE)),
                    LAMBDA moved :
               With([pos |-> moved,
                     log |-> Append(st.log,
                               [i |-> i, id |-> id,
                                iBefore |-> <<st.pos[2 * i], st.pos[2 * i + 1]>>,
                                idBefore |-> <<st.pos[2 * id], st.pos[2 * id + 1]>>,
                                iAfter |-> <<moved[2 * i], moved[2 * i + 1]>>,
                                idAfter |-> <<moved[2 * id], moved[2 * id + 1]>>])],
                    LAMBDA next :
                 PushNeighbours(next, i, px, py, cands, k + 1, minDist)))))

\* Lines 146-194: numIters sweeps over the particles.
RECURSIVE PushSweeps(_, _, _, _, _)
PushSweeps(f, st, iter, i, numIters) ==
  IF iter >= numIters THEN st
  ELSE IF i >= f.numParticles THEN PushSweeps(f, st, iter + 1, 0, numIters)
  ELSE LET px == st.pos[2 * i]
           py == st.pos[2 * i + 1]
       IN With(Neighbours(f, px, py), LAMBDA cands :
          With(PushNeighbours(st, i, px, py, cands, 1, 2 * f.particleRadius),
               LAMBDA next : PushSweeps(f, next, iter, i + 1, numIters)))

\* The whole method: the solver after it, and the log of its pushes.
pushParticlesApart(f, numIters) ==
  With(BuildHash(f), LAMBDA hashed :
  With(PushSweeps(hashed, [pos |-> hashed.particlePos, log |-> <<>>], 0, 0, numIters),
       LAMBDA st :
    [f |-> [hashed EXCEPT !.particlePos = st.pos], log |-> st.log]))

\* ------------------------------------------------------------------------
\* FlipFluid.handleParticleCollisions
\* ------------------------------------------------------------------------

\* Lines 206-209: the wall bounds of particle centres.
WallMinX(f) == f.h + f.particleRadius
WallMaxX(f) == (f.fNumX - 1) * f.h - f.particleRadius
WallMinY(f) == f.h + f.particleRadius
WallMaxY(f) == (f.fNumY - 1) * f.h - f.particleRadius

\* Lines 219-237: a particle closer than minDist to the obstacle centre takes
\* the obstacle's velocity, is moved along the normal (dx, dy)/d by
\* minDist - d, and loses normal * d2 * 3 of velocity.  At d = 0 the normal
\* is 0/0.
ObstaclePush(q, obstacleX, obstacleY, minDist, obstacleVelX, obstacleVelY) ==
  With(Sub(q.x, obstacleX), LAMBDA dx :
  With(Sub(q.y, obstacleY), LAMBDA dy :
  With(IF IsNaN(dx) \/ IsNaN(dy) THEN NaN ELSE dx * dx + dy * dy, LAMBDA d2 :
    IF Lt(d2, minDist * minDist)
    THEN With(Sqrt(d2), LAMBDA d :
         With(Div(dx, d), LAMBDA nx :
         With(Div(dy, d), LAMBDA ny :
           [x |-> Add(q.x, Mul(nx, minDist - d)),
            y |-> Add(q.y, Mul(ny, minDist - d)),
            vx |-> Sub(Add(q.vx, obstacleVelX),
                       IF IsNaN(nx) THEN NaN ELSE Rnd(nx * d2 * 3, SCALE * SCALE)),
            vy |-> Sub(Add(q.vy, obstacleVelY),
                       IF IsNaN(ny) THEN NaN ELSE Rnd(ny * d2 * 3, SCALE * SCALE))])))
    ELSE q)))

\* Lines 239-246: x is clamped into [minX, maxX] and the horizontal velocity
\* zeroed on a clamp.
WallClampX(f, q) ==
  With(IF Lt(q.x, WallMinX(f)) THEN [q EXCEPT !.x = WallMinX(f), !.vx = 0] ELSE q,
       LAMBDA a :
    IF Gt(a.x, WallMaxX(f)) THEN [a EXCEPT !.x = WallMaxX(f), !.vx = 0] ELSE a)

\* Lines 247-252: below minY the position becomes maxY + y, and then above
\* maxY it becomes minY + (y - maxY); the vertical velocity is not touched.
WallWrapY(f, q) ==
  With(IF Lt(q.y, WallMinY(f)) THEN [q EXCEPT !.y = WallMaxY(f) + q.y] ELSE q,
       LAMBDA a :
    IF Gt(a.y, WallMaxY(f))
    THEN [a EXCEPT !.y = WallMinY(f) + (a.y - WallMaxY(f))]
    ELSE a)

\* One particle through lines 212-255.
CollideParticle(f, q, obstacleX, obstacleY, obstacleRadius, obstacleVelX, obstacleVelY) ==
  With(ObstaclePush(q, obstacleX, obstacleY, obstacleRadius + f.particleRadius,
                    obstacleVelX, obstacleVelY), LAMBDA pushed :
  With(WallClampX(f, pushed), LAMBDA clamped :
    WallWrapY(f, clamped)))

Particle(f, i) ==
  [x |-> f.particlePos[2 * i], y |-> f.particlePos[2 * i + 1],
   vx |-> f.particleVel[2 * i], vy |-> f.particleVel[2 * i + 1]]

handleParticleCollisions(f, obstacleX, obstacleY, obstacleRadius, obstacleVelX, obstacleVelY) ==
  With([i \in 0..(f.numParticles - 1) |->
          With(Particle(f, i), LAMBDA q :
            CollideParticle(f, q, obstacleX, obstacleY,
                            obstacleRadius, obstacleVelX, obstacleVelY))],
       LAMBDA after :
    [f EXCEPT
       !.particlePos = [k \in DOMAIN f.particlePos |->
                          IF k \div 2 >= f.numParticles THEN f.particlePos[k]
                          ELSE IF k % 2 = 0 THEN after[k \div 2].x
                               ELSE after[k \div 2].y],
       !.particleVel = [k \in DOMAIN f.particleVel |->
                          IF k \div 2 >= f.numParticles THEN f.particleVel[k]
                          ELSE IF k % 2 = 0 THEN after[k \div 2].vx
                               ELSE after[k \div 2].vy]])

\* ------------------------------------------------------------------------
\* FlipFluid.transferVelocities
\* ------------------------------------------------------------------------

\* A classification that forgets the solid cells.
BaseCellTypesAllAir(f) == [c \in 0..(f.fNumCells - 1) |-> AIR_CELL]

\* Lines 322-323: a cell is SOLID when its open fraction s is 0, else AIR.
BaseCellTypes(f) ==
  [c \in 0..(f.fNumCells - 1) |-> IF f.s[c] = 0 THEN SOLID_CELL ELSE AIR_CELL]

\* Lines 328-330: the cell that owns a position, NaN for a NaN position.
OwningCell(f, x, y) ==
  IF IsNaN(x) \/ IsNaN(y) THEN NaN
  ELSE clamp(x \div f.h, 0, f.fNumX - 1) * f.fNumY
       + clamp(y \div f.h, 0, f.fNumY - 1)

\* Lines 325-332: every particle promotes its owning cell from AIR to FLUID.
RECURSIVE MarkFluidCells(_, _, _)
MarkFluidCells(f, i, cellType) ==
  IF i >= f.numParticles THEN cellType
  ELSE LET cellNr == OwningCell(f, f.particlePos[2 * i], f.particlePos[2 * i + 1])
       IN With(IF ~IsNaN(cellNr) /\ cellType[cellNr] = AIR_CELL
               THEN [cellType EXCEPT ![cellNr] = FLUID_CELL]
               ELSE cellType,
               LAMBDA next : MarkFluidCells(f, i + 1, next))

ClassifyCells(f) ==
  With(BaseCellTypes(f), LAMBDA base : MarkFluidCells(f, 0, base))

\* Lines 344-369: the four grid nodes around a (finite) position shifted by
\* (dx, dy), and their bilinear weights.
Stencil(f, px, py, dx, dy) ==
  LET x == clamp(px, f.h, (f.fNumX - 1) * f.h)
      y == clamp(py, f.h, (f.fNumY - 1) * f.h)
      x0 == MinI((x - dx) \div f.h, f.fNumX - 2)
      tx == Rnd(((x - dx) - x0 * f.h) * SCALE, f.h)
      x1 == MinI(x0 + 1, f.fNumX - 2)
      y0 == MinI((y - dy) \div f.h, f.fNumY - 2)
      ty == Rnd(((y - dy) - y0 * f.h) * SCALE, f.h)
      y1 == MinI(y0 + 1, f.fNumY - 2)
      sx == SCALE - tx
      sy == SCALE - ty
      n == f.fNumY
  IN [nr |-> <<x0 * n + y0, x1 * n + y0, x1 * n + y1, x0 * n + y1>>,
      d |-> <<Rnd(sx * sy, SCALE), Rnd(tx * sy, SCALE),
              Rnd(tx * ty, SCALE), Rnd(sx * ty, SCALE)>>]

\* The sample offset of a component: u at (0, h/2), v at (h/2, 0).
OffsetX(f, component) == IF component = 0 THEN 0 ELSE f.h \div 2
OffsetY(f, component) == IF component = 0 THEN f.h \div 2 ELSE 0

ParticleStencil(f, i, component) ==
  Stencil(f, f.particlePos[2 * i], f.particlePos[2 * i + 1],
          OffsetX(f, component), OffsetY(f, component))

\* Lines 372-380 for particles i, i+1, ...: acc accumulates pv * d (in units
\* 1/SCALE^2, so that the later division by the weight is the only rounding),
\* weight accumulates d.  A particle at NaN indexes nothing.
RECURSIVE ScatterParticles(_, _, _, _, _)
ScatterParticles(f, component, i, acc, weight) ==
  IF i >= f.numParticles THEN [acc |-> acc, weight |-> weight]
  ELSE IF IsNaN(f.particlePos[2 * i]) \/ IsNaN(f.particlePos[2 * i + 1])
  THEN ScatterParticles(f, component, i + 1, acc, weight)
  ELSE With(ParticleStencil(f, i, component), LAMBDA st :
       LET pv == f.particleVel[2 * i + component]
           a1 == [acc EXCEPT ![st.nr[1]] = @ + pv * st.d[1]]
           a2 == [a1 EXCEPT ![st.nr[2]] = @ + pv * st.d[2]]
           a3 == [a2 EXCEPT ![st.nr[3]] = @ + pv * st.d[3]]
           a4 == [a3 EXCEPT ![st.nr[4]] = @ + pv * st.d[4]]
           w1 == [weight EXCEPT ![st.nr[1]] = @ + st.d[1]]
           w2 == [w1 EXCEPT ![st.nr[2]] = @ + st.d[2]]
           w3 == [w2 EXCEPT ![st.nr[3]] = @ + st.d[3]]
           w4 == [w3 EXCEPT ![st.nr[4]] = @ + st.d[4]]
       IN With(a4, LAMBDA nextAcc :
          With(w4, LAMBDA nextWeight :
            ScatterParticles(f, component, i + 1, nextAcc, nextWeight))))

\* A scatter that leaves the normalised values on the solid faces.
KeepScatteredFaces(f) == f

\* Lines 431-439: a face with a SOLID cell on either side takes its
\* pre-scatter value back.
RestoreSolidFaces(f) ==
  LET n == f.fNumY
      solid(c) == f.cellType[c] = SOLID_CELL
  IN [f EXCEPT
        !.u = [c \in DOMAIN f.u |->
                 IF solid(c) \/ (c \div n > 0 /\ solid(c - n))
                 THEN f.prevU[c] ELSE f.u[c]],
        !.v = [c \in DOMAIN f.v |->
                 IF solid(c) \/ (c % n > 0 /\ solid(c - 1))
                 THEN f.prevV[c] ELSE f.v[c]]]

\* One pass of the component loop with toGrid: accumulate, divide each node
\* of positive weight by its weight (lines 426-429), restore the solid faces.
ScatterComponent(f, component) ==
  LET fld == IF component = 0 THEN f.u ELSE f.v
      w0 == IF component = 0 THEN f.du ELSE f.dv
  IN With([c \in DOMAIN fld |-> fld[c] * SCALE], LAMBDA acc0 :
     With(ScatterParticles(f, component, 0, acc0, w0), LAMBDA r :
     With([c \in DOMAIN fld |->
             IF r.weight[c] > 0 THEN Quot(r.acc[c], r.weight[c]) ELSE fld[c]],
          LAMBDA val :
     With(IF component = 0 THEN [f EXCEPT !.u = val, !.du = r.weight]
          ELSE [f EXCEPT !.v = val, !.dv = r.weight],
          LAMBDA divided : RestoreSolidFaces(divided)))))

\* Lines 382-406: valid_k * d_k for the four nodes of stencil st; a node
\* counts when the cell on either side of its face is not AIR.
ValidWeights(f, st, component) ==
  LET offset == IF component = 0 THEN f.fNumY ELSE 1
  IN [k \in 1..4 |->
        IF f.cellType[st.nr[k]] # AIR_CELL
           \/ f.cellType[st.nr[k] - offset] # AIR_CELL
        THEN st.d[k] ELSE 0]

\* Lines 382-422: the new velocity component of particle i, blended from the
\* PIC value and the FLIP value (flipRatio = flip10/10) over the valid nodes;
\* unchanged when no node is valid or the particle is at NaN.
GatherComponent(f, i, component, flip10) ==
  LET v == f.particleVel[2 * i + component]
      fld == IF component = 0 THEN f.u ELSE f.v
      prevF == IF component = 0 THEN f.prevU ELSE f.prevV
  IN IF IsNaN(f.particlePos[2 * i]) \/ IsNaN(f.particlePos[2 * i + 1]) THEN v
     ELSE
       With(ParticleStencil(f, i, component), LAMBDA st :
       With(ValidWeights(f, st, component), LAMBDA vd :
       With(vd[1] + vd[2] + vd[3] + vd[4], LAMBDA totalWeight :
         IF totalWeight > 0
         THEN With(Quot(vd[1] * fld[st.nr[1]] + vd[2] * fld[st.nr[2]]
                        + vd[3] * fld[st.nr[3]] + vd[4] * fld[st.nr[4]], totalWeight),
                   LAMBDA picV :
              With(Quot(vd[1] * (fld[st.nr[1]] - prevF[st.nr[1]])
                        + vd[2] * (fld[st.nr[2]] - prevF[st.nr[2]])
                        + vd[3] * (fld[st.nr[3]] - prevF[st.nr[3]])
                        + vd[4] * (fld[st.nr[4]] - prevF[st.nr[4]]), totalWeight),
                   LAMBDA corr :
                Rnd((10 - flip10) * picV + flip10 * (v + corr), 10)))
         ELSE v)))

\* transferVelocities(true): snapshot, clear, classify, then both component
\* passes.
ScatterToGrid(f) ==
  With([f EXCEPT !.prevU = f.u, !.prevV = f.v,
                 !.du = Zeros(f.fNumCells), !.dv = Zeros(f.fNumCells),
                 !.u = Zeros(f.fNumCells), !.v = Zeros(f.fNumCells)],
       LAMBDA cleared :
  With(ClassifyCells(cleared), LAMBDA cellType :
  With([cleared EXCEPT !.cellType = cellType], LAMBDA classified :
  With(ScatterComponent(classified, 0), LAMBDA withU :
    ScatterComponent(withU, 1)))))

\* transferVelocities(false, flipRatio).
GatherFromGrid(f, flip10) ==
  [f EXCEPT !.particleVel =
     [k \in DOMAIN f.particleVel |->
        IF k \div 2 >= f.numParticles THEN f.particleVel[k]
        ELSE GatherComponent(f, k \div 2, k % 2, flip10)]]

transferVelocities(f, toGrid, flip10) ==
  IF toGrid THEN ScatterToGrid(f) ELSE GatherFromGrid(f, flip10)

\* ------------------------------------------------------------------------
\* FlipFluid.updateParticleDensity
\* ------------------------------------------------------------------------

\* Lines 270-290 for one (finite) position: the four cell centres around it,
\* their bilinear weights, and the index guards of lines 287-290.
DensityStencil(f, px, py) ==
  LET n == f.fNumY
      h2 == f.h \div 2
      x == clamp(px, f.h, (f.fNumX - 1) * f.h)
      y == clamp(py, f.h, (f.fNumY - 1) * f.h)
      x0 == (x - h2) \div f.h
      tx == Rnd(((x - h2) - x0 * f.h) * SCALE, f.h)
      x1 == MinI(x0 + 1, f.fNumX - 2)
      y0 == (y - h2) \div f.h
      ty == Rnd(((y - h2) - y0 * f.h) * SCALE, f.h)
      y1 == MinI(y0 + 1, f.fNumY - 2)
      sx == SCALE - tx
      sy == SCALE - ty
  IN [nr |-> <<x0 * n + y0, x1 * n + y0, x1 * n + y1, x0 * n + y1>>,
      d |-> <<Rnd(sx * sy, SCALE), Rnd(tx * sy, SCALE),
              Rnd(tx * ty, SCALE), Rnd(sx * ty, SCALE)>>,
      guard |-> <<x0 < f.fNumX /\ y0 < f.fNumY, x1 < f.fNumX /\ y0 < f.fNumY,
                  x1 < f.fNumX /\ y1 < f.fNumY, x0 < f.fNumX /\ y1 < f.fNumY>>]

\* Lines 269-291 for particles i, i+1, ...: each splats weight 1 onto the
\* four cell centres around it.  A particle at NaN passes none of the
\* index guards.
RECURSIVE SplatDensity(_, _, _)
SplatDensity(f, i, d) ==
  IF i >= f.numParticles THEN d
  ELSE IF IsNaN(f.particlePos[2 * i]) \/ IsNaN(f.particlePos[2 * i + 1])
  THEN SplatDensity(f, i + 1, d)
  ELSE With(DensityStencil(f, f.particlePos[2 * i], f.particlePos[2 * i + 1]),
            LAMBDA st :
       LET d1 == IF st.guard[1] THEN [d EXCEPT ![st.nr[1]] = @ + st.d[1]] ELSE d
           d2 == IF st.guard[2] THEN [d1 EXCEPT ![st.nr[2]] = @ + st.d[2]] ELSE d1
           d3 == IF st.guard[3] THEN [d2 EXCEPT ![st.nr[3]] = @ + st.d[3]] ELSE d2
           d4 == IF st.guard[4] THEN [d3 EXCEPT ![st.nr[4]] = @ + st.d[4]] ELSE d3
       IN With(d4, LAMBDA next : SplatDensity(f, i + 1, next)))

\* A calibration without the 0.0 gate: it runs on every tick.
RestDensityAlways(f, d) ==
  With({c \in DOMAIN d : f.cellType[c] = FLUID_CELL}, LAMBDA fluidCells :
    IF fluidCells # {} THEN Quot(SumOver(d, fluidCells), Cardinality(fluidCells))
    ELSE f.particleRestDensity)

\* A calibration that divides by the number of FLUID cells without looking
\* at it.
RestDensityUnguarded(f, d) ==
  With({c \in DOMAIN d : f.cellType[c] = FLUID_CELL}, LAMBDA fluidCells :
    IF f.particleRestDensity = 0
    THEN Quot(SumOver(d, fluidCells), Cardinality(fluidCells))
    ELSE f.particleRestDensity)

\* Lines 293-305: while the rest density is still 0.0 it becomes the mean
\* density of the FLUID cells, when there is one.
RestDensity(f, d) ==
  With({c \in DOMAIN d : f.cellType[c] = FLUID_CELL}, LAMBDA fluidCells :
    IF f.particleRestDensity = 0 /\ fluidCells # {}
    THEN Quot(SumOver(d, fluidCells), Cardinality(fluidCells))
    ELSE f.particleRestDensity)

updateParticleDensity(f) ==
  With(Zeros(f.fNumCells), LAMBDA d0 :
  With(SplatDensity(f, 0, d0), LAMBDA d :
    [f EXCEPT !.particleDensity = d, !.particleRestDensity = RestDensity(f, d)]))

\* ------------------------------------------------------------------------
\* FlipFluid.solveIncompressibility
\* ------------------------------------------------------------------------

\* A relaxation that spreads the correction over all four faces, whatever
\* the open fractions.
RelaxCellThroughSolids(f, st, center, cp, or10, compensateDrift) ==
  LET n == f.fNumY
      right == center + n
      top == center + 1
      div0 == st.u[right] - st.u[center] + st.v[top] - st.v[center]
      compression == f.particleDensity[center] - f.particleRestDensity
      div == IF f.particleRestDensity > 0 /\ compensateDrift /\ compression > 0
             THEN div0 - compression ELSE div0
  IN IF f.cellType[center] # FLUID_CELL THEN st
     ELSE With(Quot((-div) * or10, 4 * 10), LAMBDA p :
            [u |-> [[st.u EXCEPT ![center] = @ - p] EXCEPT ![right] = @ + p],
             v |-> [[st.v EXCEPT ![center] = @ - p] EXCEPT ![top] = @ + p],
             p |-> [st.p EXCEPT ![center] = @ + cp * p]])

\* A relaxation that divides the divergence by 4 whatever the number of open
\* neighbours.
RelaxCellByFour(f, st, center, cp, or10, compensateDrift) ==
  LET n == f.fNumY
      right == center + n
      top == center + 1
      sx0 == f.s[center - n]
      sx1 == f.s[right]
      sy0 == f.s[center - 1]
      sy1 == f.s[top]
      div0 == st.u[right] - st.u[center] + st.v[top] - st.v[center]
      compression == f.particleDensity[center] - f.particleRestDensity
      div == IF f.particleRestDensity > 0 /\ compensateDrift /\ compression > 0
             THEN div0 - compression ELSE div0
  IN IF f.cellType[center] # FLUID_CELL \/ sx0 + sx1 + sy0 + sy1 = 0 THEN st
     ELSE With(Quot((-div) * or10, 4 * 10), LAMBDA p :
            [u |-> [[st.u EXCEPT ![center] = @ - sx0 * p] EXCEPT ![right] = @ + sx1 * p],
             v |-> [[st.v EXCEPT ![center] = @ - sy0 * p] EXCEPT ![top] = @ + sy1 * p],
             p |-> [st.p EXCEPT ![center] = @ + cp * p]])

\* Lines 457-487 for one interior cell: skipped unless FLUID with an open
\* neighbour; otherwise its divergence (less the compression above the rest
\* density when drift is compensated) is spread over the four faces by open
\* fraction.  overRelaxation = or10/10; cp = density * h / dt.
RelaxCell(f, st, center, cp, or10, compensateDrift) ==
  LET n == f.fNumY
      left == center - n
      right == center + n
      bottom == center - 1
      top == center + 1
      sx0 == f.s[left]
      sx1 == f.s[right]
      sy0 == f.s[bottom]
      sy1 == f.s[top]
      sNeighbors == sx0 + sx1 + sy0 + sy1
      div0 == st.u[right] - st.u[center] + st.v[top] - st.v[center]
      compression == f.particleDensity[center] - f.particleRestDensity
      div == IF f.particleRestDensity > 0 /\ compensateDrift /\ compression > 0
             THEN div0 - compression ELSE div0
  IN IF f.cellType[center] # FLUID_CELL \/ sNeighbors = 0 THEN st
     ELSE With(Quot((-div) * or10, sNeighbors * 10), LAMBDA p :
            [u |-> [[st.u EXCEPT ![center] = @ - sx0 * p] EXCEPT ![right] = @ + sx1 * p],
             v |-> [[st.v EXCEPT ![center] = @ - sy0 * p] EXCEPT ![top] = @ + sy1 * p],
             p |-> [st.p EXCEPT ![center] = @ + cp * p]])

\* The cells a sweep of lines 456-458 does not skip, in the order it visits
\* them (i outer, j inner, both over the interior): cellType and s do not
\* change during the solve.
RelaxedCells(f) ==
  SelectSeq([k \in 1..f.fNumCells |-> k - 1],
            LAMBDA c : /\ c \div f.fNumY >= 1 /\ c \div f.fNumY < f.fNumX - 1
                       /\ c % f.fNumY >= 1 /\ c % f.fNumY < f.fNumY - 1
                       /\ f.cellType[c] = FLUID_CELL)

\* Lines 454-490: numIters sweeps over those cells, each relaxation seeing
\* the ones before it.
RECURSIVE RelaxSweeps(_, _, _, _, _, _, _, _, _)
RelaxSweeps(f, cells, st, iter, k, numIters, cp, or10, compensateDrift) ==
  IF iter >= numIters THEN st
  ELSE IF k > Len(cells)
  THEN RelaxSweeps(f, cells, st, iter + 1, 1, numIters, cp, or10, compensateDrift)
  ELSE With(RelaxCell(f, st, cells[k], cp, or10, compensateDrift), LAMBDA next :
         RelaxSweeps(f, cells, next, iter, k + 1, numIters, cp, or10, compensateDrift))

\* A solve that starts from the pressure of the tick before.
solveIncompressibilityKeepPressure(f, numIters, dtInv, or10, compensateDrift) ==
  With(Rnd(f.density * f.h * dtInv, SCALE), LAMBDA cp :
  With(RelaxedCells(f), LAMBDA cells :
  With([u |-> f.u, v |-> f.v, p |-> f.p], LAMBDA st0 :
  With(RelaxSweeps(f, cells, st0, 0, 1, numIters, cp, or10, compensateDrift),
       LAMBDA st :
    [f EXCEPT !.p = st.p, !.prevU = f.u, !.prevV = f.v, !.u = st.u, !.v = st.v]))))

solveIncompressibility(f, numIters, dtInv, or10, compensateDrift) ==
  With(Rnd(f.density * f.h * dtInv, SCALE), LAMBDA cp :
  With(RelaxedCells(f), LAMBDA cells :
  With([u |-> f.u, v |-> f.v, p |-> Zeros(f.fNumCells)], LAMBDA st0 :
  With(RelaxSweeps(f, cells, st0, 0, 1, numIters, cp, or10, compensateDrift),
       LAMBDA st :
    [f EXCEPT !.p = st.p, !.prevU = f.u, !.prevV = f.v, !.u = st.u, !.v = st.v]))))

\* ------------------------------------------------------------------------
\* FlipFluid.simulate
\* ------------------------------------------------------------------------

\* A substep that handles collisions only once, after the gather.
SubStepCollideOnce(f, P) ==
  With(integrateParticles(f, P.dtInv, P.gravity, P.dampNum, P.dampDen),
       LAMBDA integrated :
  With(IF P.separateParticles
       THEN pushParticlesApart(integrated, P.numParticleIters)
       ELSE [f |-> integrated, log |-> <<>>],
       LAMBDA pushed :
  With(transferVelocities(pushed.f, TRUE, 0), LAMBDA scattered :
  With(updateParticleDensity(scattered), LAMBDA dense :
  With(solveIncompressibility(dense, P.numPressureIters, P.dtInv,
                              P.or10, P.compensateDrift),
       LAMBDA solved :
  With(transferVelocities(solved, FALSE, P.flip10), LAMBDA gathered :
  With(handleParticleCollisions(gathered, P.obstacleX, P.obstacleY,
                                P.obstacleRadius, P.obstacleVelX, P.obstacleVelY),
       LAMBDA final :
    [pre |-> f, integrated |-> integrated, pushed |-> pushed.f,
     pushLog |-> pushed.log, collided |-> pushed.f, scattered |-> scattered,
     dense |-> dense, solved |-> solved, gathered |-> gathered,
     final |-> final,
     calls |-> <<"integrateParticles">>
               \o (IF P.separateParticles THEN <<"pushParticlesApart">> ELSE <<>>)
               \o <<"transferVelocities(true)",
                     "updateParticleDensity", "solveIncompressibility",
                     "transferVelocities(false)", "handleParticleCollisions">>])))))))

\* The body of the substep loop (lines 588-598) with parameters P; sdt = dt
\* because numSubSteps is 1.  The result keeps the solver after every call:
\* .final is the solver when the loop ends.
SubStep(f, P) ==
  With(integrateParticles(f, P.dtInv, P.gravity, P.dampNum, P.dampDen),
       LAMBDA integrated :
  With(IF P.separateParticles
       THEN pushParticlesApart(integrated, P.numParticleIters)
       ELSE [f |-> integrated, log |-> <<>>],
       LAMBDA pushed :
  With(handleParticleCollisions(pushed.f, P.obstacleX, P.obstacleY,
                                P.obstacleRadius, P.obstacleVelX, P.obstacleVelY),
       LAMBDA collided :
  With(transferVelocities(collided, TRUE, 0), LAMBDA scattered :
  With(updateParticleDensity(scattered), LAMBDA dense :
  With(solveIncompressibility(dense, P.numPressureIters, P.dtInv,
                              P.or10, P.compensateDrift),
       LAMBDA solved :
  With(transferVelocities(solved, FALSE, P.flip10), LAMBDA gathered :
  With(handleParticleCollisions(gathered, P.obstacleX, P.obstacleY,
                                P.obstacleRadius, P.obstacleVelX, P.obstacleVelY),
       LAMBDA final :
    [pre |-> f, integrated |-> integrated, pushed |-> pushed.f,
     pushLog |-> pushed.log, collided |-> collided, scattered |-> scattered,
     dense |-> dense, solved |-> solved, gathered |-> gathered,
     final |-> final,
     calls |-> <<"integrateParticles">>
               \o (IF P.separateParticles THEN <<"pushParticlesApart">> ELSE <<>>)
               \o <<"handleParticleCollisions", "transferVelocities(true)",
                     "updateParticleDensity", "solveIncompressibility",
                     "transferVelocities(false)", "handleParticleCollisions">>]))))))))

\* A tick that drops the particles whose position is no longer finite.
simulateCulling(f, P) ==
  With(SubStep(f, P), LAMBDA t :
    [t EXCEPT !.final.numParticles =
       Cardinality({i \in 0..(f.numParticles - 1) :
                      /\ ~IsNaN(t.final.particlePos[2 * i])
                      /\ ~IsNaN(t.final.particlePos[2 * i + 1])})])

\* simulate: one substep, then the recolouring (lines 600-601), which writes
\* only particleColor and cellColor; the model records the two calls and
\* does not carry the colours.
simulate(f, P) ==
  With(SubStep(f, P), LAMBDA t :
    [t EXCEPT !.calls = @ \o <<"updateParticleColors", "updateCellColors">>])

\* ------------------------------------------------------------------------
\* The caller: seeding a scene and ticking it
\* ------------------------------------------------------------------------

\* A seeding that hands over a solver whose rest density is already set.
SeedSceneCalibrated(cfg, seeds) ==
  [FlipFluid(cfg.density, cfg.width, cfg.height, cfg.spacing,
             cfg.particleRadius, Len(seeds))
     EXCEPT !.numParticles = Len(seeds),
            !.particlePos = [k \in 0..(2 * Len(seeds) - 1) |->
                               seeds[(k \div 2) + 1][(k % 2) + 1]],
            !.particleRestDensity = SCALE]

\* What setupScene does to a new solver (fluid-canvas.ts:716-736): the seed
\* positions fill the particle block, numParticles is their count, and s is
\* 1.0 everywhere but the left and right columns.
SeedScene(cfg, seeds) ==
  With(FlipFluid(cfg.density, cfg.width, cfg.height, cfg.spacing,
                 cfg.particleRadius, Len(seeds)), LAMBDA f :
    [f EXCEPT
       !.numParticles = Len(seeds),
       !.particlePos = [k \in 0..(2 * Len(seeds) - 1) |-> seeds[(k \div 2) + 1][(k % 2) + 1]],
       !.s = [c \in 0..(f.fNumCells - 1) |->
                IF c \div f.fNumY = 0 \/ c \div f.fNumY = f.fNumX - 1 THEN 0 ELSE 1]])

\* A tank of 5 x 5 cells of side 0.1 with particles of radius 0.03.
TankConfig ==
  [density |-> 1000, width |-> 500, height |-> 500, spacing |-> 120,
   particleRadius |-> 30]

\* Seedings of the tank: one particle at a cell centre; one near the top
\* wall; two overlapping particles; the first two particles of setupScene's
\* lattice (h + r, then 2r further); two particles of which the second is in
\* the lower hash cell.
TankSeeds ==
  { << <<250, 250>> >>,
    << <<200, 360>> >>,
    << <<200, 200>>, <<230, 210>> >>,
    << <<130, 130>>, <<190, 130>> >>,
    << <<250, 320>>, <<250, 250>> >> }

\* The driver's defaults (fluid-canvas.ts:594-604); the obstacle's position
\* and velocity are the driver's fields, kept in the variable obstacle.
DefaultParams ==
  [dtInv |-> 60, gravity |-> -9810, flip10 |-> 9, numPressureIters |-> 2,
   numParticleIters |-> 2, or10 |-> 19, compensateDrift |-> TRUE,
   separateParticles |-> TRUE, dampNum |-> 1, dampDen |-> 100]

StillParams ==
  [DefaultParams EXCEPT !.gravity = 0, !.dampNum = 0, !.numParticleIters = 0]

TickParams ==
  { DefaultParams,
    StillParams,
    [StillParams EXCEPT !.separateParticles = FALSE, !.compensateDrift = FALSE,
                        !.flip10 = 0, !.or10 = 10],
    \* the gravity slider at its upper end
    [DefaultParams EXCEPT !.gravity = 20000],
    \* no pressure iteration
    [DefaultParams EXCEPT !.numPressureIters = 0] }

\* obstacleRadius (fluid-canvas.ts:606): obstacleScreenFraction 0.1 of the
\* tank height.
obstacleRadius(cfg) == Rnd(cfg.height, 10)

\* Where setupScene parks the obstacle (fluid-canvas.ts:739).
ParkedObstacle == <<3000, 2000>>

\* Pointer positions of startDrag and drag, in simulation coordinates.
DragPoints == { <<250, 250>>, <<220, 240>> }

\* A setObstacle that takes the displacement itself for the velocity.
setObstacleDisplacement(f, ob, x, y, reset, dtInv, r) ==
  LET vx == IF reset THEN 0 ELSE x - ob.obstacleX
      vy == IF reset THEN 0 ELSE y - ob.obstacleY
      n == f.fNumY
      InLoop(i, j) == i >= 1 /\ i < f.fNumX - 2 /\ j >= 1 /\ j < f.fNumY - 2
      Carved(i, j) ==
        /\ InLoop(i, j)
        /\ LET ddx == Rnd((2 * i + 1) * f.h, 2) - x
               ddy == Rnd((2 * j + 1) * f.h, 2) - y
           IN ddx * ddx + ddy * ddy < r * r
  IN [fluid |->
        [f EXCEPT
           !.s = [c \in DOMAIN f.s |->
                    IF InLoop(c \div n, c % n)
                    THEN (IF Carved(c \div n, c % n) THEN 0 ELSE 1)
                    ELSE f.s[c]],
           !.u = [c \in DOMAIN f.u |->
                    IF Carved(c \div n, c % n) \/ Carved((c \div n) - 1, c % n)
                    THEN vx ELSE f.u[c]],
           !.v = [c \in DOMAIN f.v |->
                    IF Carved(c \div n, c % n) \/ Carved(c \div n, (c % n) - 1)
                    THEN vy ELSE f.v[c]]],
      obstacle |->
        [ob EXCEPT !.obstacleX = x, !.obstacleY = y,
                   !.obstacleVelX = vx, !.obstacleVelY = vy]]

\* setObstacle (fluid-canvas.ts:742-773) on solver f and obstacle fields ob:
\* the velocity is the displacement over dt unless reset; the cells
\* 1..fNumX-3 x 1..fNumY-3 get s = 1.0, and those whose centre is nearer
\* than the radius get s = 0.0 and the obstacle's velocity on their faces.
setObstacle(f, ob, x, y, reset, dtInv, r) ==
  LET vx == IF reset THEN 0 ELSE (x - ob.obstacleX) * dtInv
      vy == IF reset THEN 0 ELSE (y - ob.obstacleY) * dtInv
      n == f.fNumY
      InLoop(i, j) == i >= 1 /\ i < f.fNumX - 2 /\ j >= 1 /\ j < f.fNumY - 2
      Carved(i, j) ==
        /\ InLoop(i, j)
        /\ LET ddx == Rnd((2 * i + 1) * f.h, 2) - x
               ddy == Rnd((2 * j + 1) * f.h, 2) - y
           IN ddx * ddx + ddy * ddy < r * r
  IN [fluid |->
        [f EXCEPT
           !.s = [c \in DOMAIN f.s |->
                    IF InLoop(c \div n, c % n)
                    THEN (IF Carved(c \div n, c % n) THEN 0 ELSE 1)
                    ELSE f.s[c]],
           !.u = [c \in DOMAIN f.u |->
                    IF Carved(c \div n, c % n) \/ Carved((c \div n) - 1, c % n)
                    THEN vx ELSE f.u[c]],
           !.v = [c \in DOMAIN f.v |->
                    IF Carved(c \div n, c % n) \/ Carved(c \div n, (c % n) - 1)
                    THEN vy ELSE f.v[c]]],
      obstacle |->
        [ob EXCEPT !.obstacleX = x, !.obstacleY = y,
                   !.obstacleVelX = vx, !.obstacleVelY = vy]]

\* setupScene (fluid-canvas.ts:691-740): a new seeded solver, the obstacle
\* parked with reset.
setupScene(cfg, seeds, ob, parked) ==
  With(SeedScene(cfg, seeds), LAMBDA f :
    setObstacle(f, ob, parked[1], parked[2],
                TRUE, DefaultParams.dtInv, obstacleRadius(cfg)))

\* The arguments runLoop passes to simulate (fluid-canvas.ts:1056-1061).
SimulateArgs(P, ob, cfg) ==
  [dtInv |-> P.dtInv, gravity |-> P.gravity, flip10 |-> P.flip10,
   numPressureIters |-> P.numPressureIters, numParticleIters |-> P.numParticleIters,
   or10 |-> P.or10, compensateDrift |-> P.compensateDrift,
   separateParticles |-> P.separateParticles,
   obstacleX |-> ob.obstacleX, obstacleY |-> ob.obstacleY,
   obstacleRadius |-> obstacleRadius(cfg),
   obstacleVelX |-> ob.obstacleVelX, obstacleVelY |-> ob.obstacleVelY,
   dampNum |-> P.dampNum, dampDen |-> P.dampDen]

\* Ticks taken in one behaviour.
MaxTicks == 2

\* The farthest the pointer moves between two drag events, per axis.
MaxDragStep == 50

Abs(a) == IF a < 0 THEN -a ELSE a

VARIABLES
  fluid,     \* the FlipFluid instance
  obstacle,  \* the driver's obstacleX, obstacleY, obstacleVelX, obstacleVelY, mouseDown
  ticks,     \* calls of simulate so far
  last,      \* the last operation: a seeding, a pointer event, or a tick with its phases
  canvas,    \* the driver's paused and rafId, and the browser's animation-frame callbacks
  app        \* the pix2pix component: isRunning, model, and its calls of runLoop

vars == <<fluid, obstacle, ticks, last, canvas, app>>

\* The driver's field initialisers (fluid-canvas.ts:603-608, 636).
NoObstacle ==
  [obstacleX |-> 0, obstacleY |-> 0, obstacleVelX |-> 0, obstacleVelY |-> 0,
   mouseDown |-> FALSE]

\* The driver before its loop starts (fluid-canvas.ts:591, 616): not paused,
\* rafId 0; no callback is requested (pending) or being run in the current
\* animation frame (queue); nextId is the handle the next
\* requestAnimationFrame returns, frames counts the calls of runLoop and
\* frameTicks the calls of simulate in the current animation frame.
IdleCanvas ==
  [paused |-> FALSE, rafId |-> 0, pending |-> {}, queue |-> {}, nextId |-> 1,
   frames |-> 0, frameTicks |-> 0]

\* The pix2pix component as constructed (index.ts:18-23): not running, no
\* model yet.  loops maps every call of runLoop that has started and not
\* returned to the number of inferences it has requested; started counts
\* the calls of runLoop so far.
IdleApp == [isRunning |-> FALSE, model |-> FALSE, loops |-> <<>>, started |-> 0]

Init ==
  /\ \E seeds \in TankSeeds :
       \E sc \in {setupScene(TankConfig, seeds, NoObstacle, ParkedObstacle)} :
         fluid = sc.fluid /\ obstacle = sc.obstacle
  /\ ticks = 0
  /\ canvas = IdleCanvas
  /\ app = IdleApp
  /\ last = [kind |-> "seed"]

\* fluid.simulate(...) with parameters P and the obstacle as it stands.
Tick(P, limit) ==
  /\ ticks < limit
  /\ \E args \in {SimulateArgs(P, obstacle, TankConfig)} :
       \E t \in {simulate(fluid, args)} :
         /\ fluid' = t.final
         /\ last' = [kind |-> "tick", params |-> args, phases |-> t]
  /\ ticks' = ticks + 1
  /\ UNCHANGED <<obstacle, canvas, app>>

\* The caller reseeds (reinit, fluid-canvas.ts:790): a new solver, seeded.
Reseed ==
  /\ last.kind # "seed"
  /\ ticks < MaxTicks
  /\ \E seeds \in TankSeeds :
       \E sc \in {setupScene(TankConfig, seeds, obstacle, ParkedObstacle)} :
         fluid' = sc.fluid /\ obstacle' = sc.obstacle
  /\ last' = [kind |-> "seed"]
  /\ UNCHANGED <<ticks, canvas, app>>

\* startDrag (fluid-canvas.ts:1069-1077).
startDrag(x, y) ==
  /\ ticks < MaxTicks
  /\ \E so \in {setObstacle(fluid, obstacle, x, y, TRUE, DefaultParams.dtInv,
                              obstacleRadius(TankConfig))} :
       fluid' = so.fluid /\ obstacle' = [so.obstacle EXCEPT !.mouseDown = TRUE]
  /\ last' = [kind |-> "pointer", op |-> "startDrag", x |-> x, y |-> y]
  /\ UNCHANGED <<ticks, canvas, app>>

\* drag (fluid-canvas.ts:1079-1086): nothing unless the button is down.
drag(x, y) ==
  /\ ticks < MaxTicks
  /\ obstacle.mouseDown
  /\ Abs(x - obstacle.obstacleX) <= MaxDragStep
  /\ Abs(y - obstacle.obstacleY) <= MaxDragStep
  /\ \E so \in {setObstacle(fluid, obstacle, x, y, FALSE, DefaultParams.dtInv,
                              obstacleRadius(TankConfig))} :
       fluid' = so.fluid /\ obstacle' = so.obstacle
  /\ last' = [kind |-> "pointer", op |-> "drag", x |-> x, y |-> y]
  /\ UNCHANGED <<ticks, canvas, app>>

\* endDrag (fluid-canvas.ts:1088-1092).
endDrag ==
  /\ ticks < MaxTicks
  /\ obstacle' = [obstacle EXCEPT !.mouseDown = FALSE, !.obstacleVelX = 0,
                                  !.obstacleVelY = 0]
  /\ last' = [kind |-> "pointer", op |-> "endDrag"]
  /\ UNCHANGED <<fluid, ticks, canvas, app>>

Next ==
  \/ \E P \in TickParams : Tick(P, MaxTicks)
  \/ Reseed
  \/ \E pt \in DragPoints : startDrag(pt[1], pt[2])
  \/ \E pt \in DragPoints : drag(pt[1], pt[2])
  \/ endDrag

Spec == Init /\ [][Next]_vars

\* ------------------------------------------------------------------------
\* The end-to-end scenario: one particle falling in a 10 x 10 grid
\* ------------------------------------------------------------------------

\* 10 x 10 cells of side 1.0; the particle radius is 0.3 h as in setupScene.
E2EConfig ==
  [density |-> 1000, width |-> 10000, height |-> 10000, spacing |-> 1100,
   particleRadius |-> 300]

\* The particle at (5, 5); the obstacle far outside the grid.
E2ESeeds == << <<5000, 5000>> >>
E2EObstacle == <<20000, 20000>>

\* What the scenario fixes (gravity -9.8, dt 1/60, damping 0, no separation,
\* one pressure iteration) with every setting it leaves open.
E2EParams ==
  { [DefaultParams EXCEPT !.gravity = -9800, !.dampNum = 0,
                          !.separateParticles = FALSE, !.numPressureIters = 1,
                          !.compensateDrift = cd, !.flip10 = fl, !.or10 = orx] :
      cd \in BOOLEAN, fl \in {0, 9, 10}, orx \in {10, 19} }

\* Ticks of the scenario.
E2ETicks == 60

InitE2E ==
  /\ \E sc \in {setupScene(E2EConfig, E2ESeeds, NoObstacle, E2EObstacle)} :
       fluid = sc.fluid /\ obstacle = sc.obstacle
  /\ ticks = 0
  /\ canvas = IdleCanvas
  /\ app = IdleApp
  /\ \E P \in E2EParams :
       last = [kind |-> "seed", params |-> SimulateArgs(P, obstacle, E2EConfig)]

\* One tick of the scenario, with the parameters it started with.
TickE2E ==
  /\ ticks < E2ETicks
  /\ \E t \in {simulate(fluid, last.params)} :
       /\ fluid' = t.final
       /\ last' = [kind |-> "tick", params |-> last.params, phases |-> t]
  /\ ticks' = ticks + 1
  /\ UNCHANGED <<obstacle, canvas, app>>

NextE2E == TickE2E

SpecE2E == InitE2E /\ [][NextE2E]_vars

\* ------------------------------------------------------------------------
\* Properties
\* ------------------------------------------------------------------------

Active(f) == 0..(f.numParticles - 1)

AfterTick == last.kind = "tick"

\* C1: simulate leaves numParticles unchanged; only a reseeding by the
\* caller changes the particle count.
ParticleCountConserved ==
  [][/\ ticks' = ticks + 1 => fluid'.numParticles = fluid.numParticles
     /\ fluid'.numParticles # fluid.numParticles => last'.kind = "seed"]_vars

\* Two ticks taken, the last one on a particle whose position is no longer
\* finite: it is still counted.
ParticleCountWitness ==
  /\ AfterTick
  /\ ticks >= 2
  /\ fluid.numParticles >= 1
  /\ \E i \in Active(fluid) : IsNaN(fluid.particlePos[2 * i])

\* C2: after every call of simulate each active particle's x lies in
\* [h + r, (fNumX-1) h - r].
XWithinWalls ==
  AfterTick =>
    \A i \in Active(fluid) :
      /\ ~IsNaN(fluid.particlePos[2 * i])
      /\ fluid.particlePos[2 * i] >= WallMinX(fluid)
      /\ fluid.particlePos[2 * i] <= WallMaxX(fluid)

\* Squared distance of particle i of f from the obstacle of parameters P.
ObstacleDist2(f, i, P) ==
  (f.particlePos[2 * i] - P.obstacleX) * (f.particlePos[2 * i] - P.obstacleX)
  + (f.particlePos[2 * i + 1] - P.obstacleY) * (f.particlePos[2 * i + 1] - P.obstacleY)

\* C3: a particle that was exactly at the obstacle centre before a tick has,
\* after it, a well-defined position at least obstacleRadius + particleRadius
\* from the centre, whatever the gravity and damping.
PushedOutOfObstacle ==
  AfterTick =>
    \A i \in Active(fluid) :
      (/\ last.params.obstacleRadius > 0
       /\ last.phases.pre.particlePos[2 * i] = last.params.obstacleX
       /\ last.phases.pre.particlePos[2 * i + 1] = last.params.obstacleY)
      => /\ ~IsNaN(fluid.particlePos[2 * i])
         /\ ~IsNaN(fluid.particlePos[2 * i + 1])
         /\ ObstacleDist2(fluid, i, last.params)
              >= (last.params.obstacleRadius + fluid.particleRadius)
                 * (last.params.obstacleRadius + fluid.particleRadius)

HasFluidCell(f) == \E c \in DOMAIN f.cellType : f.cellType[c] = FLUID_CELL

\* C4: the rest density is 0 until the first tick that classifies a cell as
\* FLUID, is set in that tick, and keeps that value through every later
\* tick of the same solver.
RestDensityOneShot ==
  /\ [](AfterTick => (HasFluidCell(fluid) <=> fluid.particleRestDensity # 0)
                     \/ last.phases.pre.particleRestDensity # 0)
  /\ [][(AfterTick /\ ticks' = ticks + 1 /\ HasFluidCell(fluid))
        => fluid'.particleRestDensity = fluid.particleRestDensity]_vars

\* The rest density is set, and a later tick has moved a particle into
\* another cell.
RestDensityWitness ==
  /\ AfterTick
  /\ ticks >= 2
  /\ last.phases.pre.particleRestDensity # 0
  /\ last.phases.pre.cellType # fluid.cellType
  /\ HasFluidCell(fluid)

ObstacleOutsideDomain(f, P) ==
  \/ P.obstacleX - (P.obstacleRadius + f.particleRadius) > WallMaxX(f)
  \/ P.obstacleX + (P.obstacleRadius + f.particleRadius) < WallMinX(f)
  \/ P.obstacleY - (P.obstacleRadius + f.particleRadius) > WallMaxY(f)
  \/ P.obstacleY + (P.obstacleRadius + f.particleRadius) < WallMinY(f)

\* The precondition of the stasis scenario, on the tick just taken.
StasisScenario ==
  /\ AfterTick
  /\ last.phases.pre.numParticles = 1
  /\ last.phases.pre.particleVel[0] = 0
  /\ last.phases.pre.particleVel[1] = 0
  /\ last.phases.pre.particlePos[0] >= WallMinX(fluid)
  /\ last.phases.pre.particlePos[0] <= WallMaxX(fluid)
  /\ last.phases.pre.particlePos[1] >= WallMinY(fluid)
  /\ last.phases.pre.particlePos[1] <= WallMaxY(fluid)
  /\ last.params.gravity = 0
  /\ last.params.dampNum = 0
  /\ last.params.numParticleIters = 0
  /\ ObstacleOutsideDomain(fluid, last.params)

\* C6: one particle at rest between the walls, no gravity, no damping, no
\* separation iterations, the obstacle outside: a tick leaves its position
\* and velocity as they were.
StasisUnchanged ==
  StasisScenario =>
    /\ fluid.particlePos = last.phases.pre.particlePos
    /\ fluid.particleVel = last.phases.pre.particleVel

\* The scenario on a solver whose rest density is set, with drift
\* compensation on.
StasisWitness ==
  /\ StasisScenario
  /\ last.params.compensateDrift
  /\ fluid.particleRestDensity # 0
  /\ HasFluidCell(fluid)

\* C10: right after the classification of a scatter a cell with s = 0 is
\* SOLID, a cell with s # 0 that owns an active particle is FLUID, and every
\* other cell is AIR.
CellsClassified ==
  AfterTick =>
    LET f == last.phases.scattered
        owned == {OwningCell(f, f.particlePos[2 * i], f.particlePos[2 * i + 1]) :
                    i \in Active(f)}
    IN \A c \in DOMAIN f.cellType :
         f.cellType[c] = IF f.s[c] = 0 THEN SOLID_CELL
                         ELSE IF c \in owned THEN FLUID_CELL
                         ELSE AIR_CELL

\* A scatter that produced all three cell types, with a particle inside a
\* cell the obstacle made solid.
CellsClassifiedWitness ==
  /\ AfterTick
  /\ LET f == last.phases.scattered
     IN /\ \E c \in DOMAIN f.cellType : f.cellType[c] = FLUID_CELL
        /\ \E c \in DOMAIN f.cellType : f.cellType[c] = AIR_CELL
        /\ \E i \in Active(f) :
             ~IsNaN(f.particlePos[2 * i])
             /\ f.s[OwningCell(f, f.particlePos[2 * i], f.particlePos[2 * i + 1])] = 0


\* The particle of the end-to-end scenario.
E2EX == fluid.particlePos[0]
E2EY == fluid.particlePos[1]

\* C7 as stated: in the end-to-end scenario, whatever the settings it leaves
\* open, the particle's x-coordinate is exactly 5 after every tick.
E2EXExactlyFive == AfterTick => E2EX = 5000

\* C7 amended: in the end-to-end scenario with drift compensation off (in
\* the scene setupScene builds, solid on the left and right columns only),
\* the particle's x-coordinate is exactly 5 after every tick.
E2EXExactlyFiveWithoutDrift ==
  (AfterTick /\ ~last.params.compensateDrift) => E2EX = 5000

\* All 60 ticks taken without drift compensation: the particle has fallen
\* (and been wrapped), the pressure solve has had a FLUID cell to work on.
E2EXWitness ==
  /\ AfterTick
  /\ ticks = E2ETicks
  /\ ~last.params.compensateDrift
  /\ E2EY # 5000
  /\ HasFluidCell(fluid)
  /\ fluid.particleVel[1] < 0

\* C8: in the end-to-end scenario the particle's y-coordinate never
\* increases over a tick, and once it is at the lower wall bound it stays
\* there with vertical velocity 0.
E2EYNeverIncreases ==
  AfterTick =>
    /\ E2EY <= last.phases.pre.particlePos[1]
    /\ E2EY >= WallMinY(fluid)
    /\ last.phases.pre.particlePos[1] = WallMinY(fluid)
         => E2EY = WallMinY(fluid) /\ fluid.particleVel[1] = 0

\* The cells on the edge of the grid: the first and last column, the first
\* and last row.
BoundaryCells(f) ==
  {c \in 0..(f.fNumCells - 1) :
     \/ c \div f.fNumY = 0 \/ c \div f.fNumY = f.fNumX - 1
     \/ c % f.fNumY = 0 \/ c % f.fNumY = f.fNumY - 1}

\* C11: after every tick, in the scene of setupScene and whatever the
\* obstacle moves, every cell on the edge of the grid is SOLID.
BoundaryCellsSolid ==
  AfterTick => \A c \in BoundaryCells(fluid) : fluid.cellType[c] = SOLID_CELL

\* ------------------------------------------------------------------------
\* The array indices of a tick
\* ------------------------------------------------------------------------

\* One use of an index on an array of the given length.
Access(len, index) == [len |-> len, index |-> index]

InBounds(a) == ~IsNaN(a.index) /\ 0 <= a.index /\ a.index < a.len

\* particlePos[2 * i], particlePos[2 * i + 1] and the same of particleVel,
\* for the particles every loop runs over.
ParticleAccesses(f) ==
  UNION {{Access(2 * f.maxParticles, 2 * i), Access(2 * f.maxParticles, 2 * i + 1)} :
           i \in 0..(f.numParticles - 1)}

\* Lines 117-141 on the positions of f: numCellParticles[cellNr] and
\* firstCellParticle[cellNr], then cellParticleIds[firstCellParticle[cellNr]],
\* where the runs of hashed fill the slots from 0 up; a NaN cellNr reads
\* undefined for the slot.
HashAccesses(f, hashed) ==
  LET cellNr(i) == HashCell(f, f.particlePos[2 * i], f.particlePos[2 * i + 1])
  IN UNION {{Access(f.pNumCells, cellNr(i)),
             Access(f.pNumCells + 1, cellNr(i)),
             Access(f.maxParticles, IF IsNaN(cellNr(i)) THEN NaN ELSE 0)} :
              i \in 0..(f.numParticles - 1)}
     \cup {Access(f.maxParticles, k) :
             k \in 0..(hashed.firstCellParticle[hashed.pNumCells] - 1)}

\* Lines 158-167 for a particle at (px, py): firstCellParticle[cellNr] and
\* [cellNr + 1] for the cells of the block, cellParticleIds[j] for their
\* slots, particlePos[2 * id] and [2 * id + 1] for the ids found there.
SweepAccesses(hashed, px, py) ==
  UNION {{Access(hashed.pNumCells + 1, c), Access(hashed.pNumCells + 1, c + 1)}
           \cup UNION {{Access(hashed.maxParticles, j),
                        Access(2 * hashed.maxParticles, 2 * hashed.cellParticleIds[j]),
                        Access(2 * hashed.maxParticles, 2 * hashed.cellParticleIds[j] + 1)} :
                         j \in hashed.firstCellParticle[c]..(hashed.firstCellParticle[c + 1] - 1)} :
           c \in Block(hashed, px, py)}

\* Lines 328-331: cellType[cellNr] of the owning cell.
ClassifyAccesses(f) ==
  {Access(f.fNumCells, OwningCell(f, f.particlePos[2 * i], f.particlePos[2 * i + 1])) :
     i \in 0..(f.numParticles - 1)}

\* Lines 366-369: the four nodes nr0..nr3 of particle i; floor, min and the
\* index arithmetic keep a NaN position NaN.
StencilNodes(f, i, component) ==
  IF IsNaN(f.particlePos[2 * i]) \/ IsNaN(f.particlePos[2 * i + 1]) THEN {NaN}
  ELSE With(ParticleStencil(f, i, component), LAMBDA st : {st.nr[k] : k \in 1..4})

\* Lines 373-380: f[nr] and weight[nr] at the four nodes, both components.
ScatterAccesses(f) ==
  UNION {{Access(f.fNumCells, nr) : nr \in StencilNodes(f, i, component)} :
           i \in 0..(f.numParticles - 1), component \in {0, 1}}

\* Lines 383-417: cellType[nr], cellType[nr - offset], f[nr] and prevF[nr].
GatherAccesses(f) ==
  UNION {UNION {{Access(f.fNumCells, nr),
                 Access(f.fNumCells,
                        IF IsNaN(nr) THEN NaN
                        ELSE nr - (IF component = 0 THEN f.fNumY ELSE 1))} :
                  nr \in StencilNodes(f, i, component)} :
           i \in 0..(f.numParticles - 1), component \in {0, 1}}

\* Lines 287-290: d[nr] where the guard lets it through; NaN fails every
\* guard.
DensityAccesses(f) ==
  UNION {IF IsNaN(f.particlePos[2 * i]) \/ IsNaN(f.particlePos[2 * i + 1]) THEN {}
         ELSE With(DensityStencil(f, f.particlePos[2 * i], f.particlePos[2 * i + 1]),
                   LAMBDA st : {Access(f.fNumCells, st.nr[k]) : k \in {m \in 1..4 : st.guard[m]}}) :
           i \in 0..(f.numParticles - 1)}

\* Lines 457-487: the cell of every interior (i, j), and the four
\* neighbours of those that are FLUID.
SolveAccesses(f) ==
  UNION {{Access(f.fNumCells, i * f.fNumY + j)} :
           i \in 1..(f.fNumX - 2), j \in 1..(f.fNumY - 2)}
  \cup UNION {{Access(f.fNumCells, c - f.fNumY), Access(f.fNumCells, c + f.fNumY),
               Access(f.fNumCells, c - 1), Access(f.fNumCells, c + 1)} :
                c \in {RelaxedCells(f)[k] : k \in 1..Len(RelaxedCells(f))}}

\* updateParticleColors, lines 506-514: particleDensity[cellNr] once the
\* rest density is positive, the cell clamped into 1..fNumX-1 x 1..fNumY-1.
ColourAccesses(f) ==
  IF f.particleRestDensity > 0
  THEN {Access(f.fNumCells,
               IF IsNaN(f.particlePos[2 * i]) \/ IsNaN(f.particlePos[2 * i + 1]) THEN NaN
               ELSE clamp(f.particlePos[2 * i] \div f.h, 1, f.fNumX - 1) * f.fNumY
                    + clamp(f.particlePos[2 * i + 1] \div f.h, 1, f.fNumY - 1)) :
          i \in 0..(f.numParticles - 1)}
  ELSE {}

\* The positions a particle has while pushParticlesApart runs on t: the ones
\* it starts with and the ones the pushes give.
SweepPositions(t) ==
  {<<t.integrated.particlePos[2 * i], t.integrated.particlePos[2 * i + 1]>> :
     i \in 0..(t.integrated.numParticles - 1)}
  \cup UNION {{t.pushLog[k].iAfter, t.pushLog[k].idAfter} : k \in 1..Len(t.pushLog)}

\* Every index of the tick with phases t and parameters P.
TickAccesses(t, P) ==
  ParticleAccesses(t.pre)
  \cup (IF P.separateParticles
        THEN HashAccesses(t.integrated, t.pushed)
             \cup (IF P.numParticleIters > 0
                   THEN UNION {SweepAccesses(t.pushed, pt[1], pt[2]) : pt \in SweepPositions(t)}
                   ELSE {})
        ELSE {})
  \cup ClassifyAccesses(t.collided)
  \cup ScatterAccesses(t.collided)
  \cup DensityAccesses(t.scattered)
  \cup SolveAccesses(t.dense)
  \cup GatherAccesses(t.solved)
  \cup ColourAccesses(t.final)

\* C12: during a tick every index used on a grid array, a particle array or
\* a hash array lies within the array, 0 <= index < length, wherever the
\* particles are.
IndicesInBounds ==
  AfterTick => \A a \in TickAccesses(last.phases, last.params) : InBounds(a)

\* The face of cell c that RestoreSolidFaces hands its old value back:
\* component 0 is the u face (cell c or its left neighbour SOLID),
\* component 1 the v face (cell c or the one below SOLID).
SolidFace(f, c, component) ==
  \/ f.cellType[c] = SOLID_CELL
  \/ component = 0 /\ c \div f.fNumY > 0 /\ f.cellType[c - f.fNumY] = SOLID_CELL
  \/ component = 1 /\ c % f.fNumY > 0 /\ f.cellType[c - 1] = SOLID_CELL

\* The interior cells (lines 455-456).
InteriorCells(f) ==
  {i * f.fNumY + j : i \in 1..(f.fNumX - 2), j \in 1..(f.fNumY - 2)}

\* sNeighbors of line 469.
OpenNeighbours(f, c) == f.s[c - f.fNumY] + f.s[c + f.fNumY] + f.s[c - 1] + f.s[c + 1]

FiniteField(fld) == \A c \in DOMAIN fld : ~IsNaN(fld[c])

NewFlipFluid(cfg, maxParticles) ==
  IF cfg.spacing = 0 \/ cfg.particleRadius = 0
  THEN [outcome |-> "RangeError"]
  ELSE With(FlipFluid(cfg.density, cfg.width, cfg.height, cfg.spacing,
                      cfg.particleRadius, maxParticles), LAMBDA f :
         IF f.fNumCells < 0 \/ f.pNumCells < 0 \/ maxParticles < 0
         THEN [outcome |-> "RangeError"]
         ELSE [outcome |-> "ok", fluid |-> f])

\* Configurations a caller may pass: the tank, and the tank with one
\* argument zero or negative.
NewConfigs ==
  { TankConfig,
    [TankConfig EXCEPT !.width = 0],
    [TankConfig EXCEPT !.width = -500],
    [TankConfig EXCEPT !.height = 0],
    [TankConfig EXCEPT !.height = -500],
    [TankConfig EXCEPT !.spacing = 0],
    [TankConfig EXCEPT !.particleRadius = 0],
    [TankConfig EXCEPT !.spacing = 100],
    [TankConfig EXCEPT !.particleRadius = 40] }

NewCapacities == {0, 1, 2}

\* A zero capacity, or a width, height, spacing or radius that is not
\* positive.
Malformed(cfg, maxParticles) ==
  \/ maxParticles = 0
  \/ cfg.width <= 0 \/ cfg.height <= 0
  \/ cfg.spacing <= 0 \/ cfg.particleRadius <= 0

InitNew ==
  /\ fluid = NewFlipFluid(TankConfig, 1).fluid
  /\ obstacle = NoObstacle
  /\ ticks = 0
  /\ canvas = IdleCanvas
  /\ app = IdleApp
  /\ last = [kind |-> "new", config |-> TankConfig, maxParticles |-> 1,
             outcome |-> "ok"]

\* this.fluid = new FlipFluid(...): the field keeps the old solver when the
\* constructor throws.
Construct(cfg, maxParticles) ==
  /\ \E r \in {NewFlipFluid(cfg, maxParticles)} :
       /\ fluid' = IF r.outcome = "ok" THEN r.fluid ELSE fluid
       /\ last' = [kind |-> "new", config |-> cfg, maxParticles |-> maxParticles,
                   outcome |-> r.outcome]
  /\ ticks' = 0
  /\ UNCHANGED <<obstacle, canvas, app>>

\* simulate on the solver the last successful construction made.
TickNew(P) ==
  /\ ticks < MaxTicks
  /\ last.outcome = "ok"
  /\ \E args \in {SimulateArgs(P, obstacle, last.config)} :
       \E t \in {simulate(fluid, args)} :
         /\ fluid' = t.final
         /\ last' = [kind |-> "tick", config |-> last.config,
                     maxParticles |-> last.maxParticles, outcome |-> "ok",
                     params |-> args, phases |-> t]
  /\ ticks' = ticks + 1
  /\ UNCHANGED <<obstacle, canvas, app>>

NextNew ==
  \/ \E cfg \in NewConfigs, maxParticles \in NewCapacities : Construct(cfg, maxParticles)
  \/ \E P \in TickParams : TickNew(P)

SpecNew == InitNew /\ [][NextNew]_vars

\* C14: a construction with a malformed configuration is rejected, so that
\* no solver with such a configuration is ever ticked.
MalformedConfigRejected ==
  /\ (last.kind = "new" /\ Malformed(last.config, last.maxParticles))
       => last.outcome # "ok"
  /\ last.kind = "tick" => ~Malformed(last.config, last.maxParticles)

\* C15: between two ticks every operation of the canvas other than the
\* reinitialisation of the scene (here the pointer events) leaves the
\* solver's u, v, s, particle positions and particle velocities as they
\* were.
PointerLeavesSolverAlone ==
  [][last'.kind = "pointer" =>
       /\ fluid'.u = fluid.u /\ fluid'.v = fluid.v /\ fluid'.s = fluid.s
       /\ fluid'.particlePos = fluid.particlePos
       /\ fluid'.particleVel = fluid.particleVel]_vars

\* C17: a drag sets the obstacle velocity to the displacement from the
\* previous obstacle position over dt; startDrag, the setObstacle of
\* setupScene (both with reset) and endDrag set it to (0, 0); nothing else
\* changes it, and a tick is passed the velocity as it stands.
ObstacleVelocityFromMoves ==
  [][/\ (last'.kind = "pointer" /\ last'.op = "drag")
          => /\ obstacle'.obstacleVelX
                  = (last'.x - obstacle.obstacleX) * DefaultParams.dtInv
             /\ obstacle'.obstacleVelY
                  = (last'.y - obstacle.obstacleY) * DefaultParams.dtInv
             /\ obstacle'.obstacleX = last'.x /\ obstacle'.obstacleY = last'.y
     /\ (last'.kind = "seed" \/ (last'.kind = "pointer" /\ last'.op # "drag"))
          => obstacle'.obstacleVelX = 0 /\ obstacle'.obstacleVelY = 0
     /\ last'.kind = "tick"
          => /\ last'.params.obstacleVelX = obstacle.obstacleVelX
             /\ last'.params.obstacleVelY = obstacle.obstacleVelY
             /\ obstacle' = obstacle]_vars

\* A tick that was passed the velocity of a drag.
ObstacleVelocityWitness ==
  /\ AfterTick
  /\ last.params.obstacleVelX # 0
  /\ last.params.obstacleVelY # 0
  /\ obstacle.mouseDown


\* The seedings whose particles are the active particles of f, in order.
SeededAs(f) ==
  {seeds \in TankSeeds :
     /\ f.numParticles = Len(seeds)
     /\ \A i \in Active(f) :
          /\ f.particlePos[2 * i] = seeds[i + 1][1]
          /\ f.particlePos[2 * i + 1] = seeds[i + 1][2]}

\* C16: after setupScene (at start-up, and again on reinit or clear) the
\* solver is a new instance: rest density 0, velocities, pressure and
\* densities zero, numParticles the seeded count; and numParticles never
\* exceeds maxParticles in any state.
FreshAfterReinit ==
  /\ fluid.numParticles <= fluid.maxParticles
  /\ last.kind = "seed" =>
       /\ fluid.particleRestDensity = 0
       /\ SeededAs(fluid) # {}
       /\ fluid.numParticles = fluid.maxParticles
       /\ fluid.particleVel = Zeros(2 * fluid.maxParticles)
       /\ fluid.u = Zeros(fluid.fNumCells)
       /\ fluid.v = Zeros(fluid.fNumCells)
       /\ fluid.p = Zeros(fluid.fNumCells)
       /\ fluid.particleDensity = Zeros(fluid.fNumCells)
       /\ fluid.cellType = Zeros(fluid.fNumCells)

\* A reinitialisation of a scene that has been ticked.
FreshAfterReinitWitness ==
  /\ last.kind = "seed"
  /\ ticks >= 1
  /\ fluid.numParticles >= 2


\* C18: a tick calls, in this order and once each, integrateParticles,
\* pushParticlesApart (only when separateParticles), handleParticleCollisions,
\* transferVelocities(true) (which classifies the cells before it scatters),
\* updateParticleDensity, solveIncompressibility, transferVelocities(false),
\* handleParticleCollisions again, and last the two recolourings; each call
\* works on the solver as the call before it left it.
PhasesInOrder ==
  AfterTick =>
    LET t == last.phases
        P == last.params
    IN /\ t.calls
            = <<"integrateParticles">>
              \o (IF P.separateParticles THEN <<"pushParticlesApart">> ELSE <<>>)
              \o <<"handleParticleCollisions", "transferVelocities(true)",
                    "updateParticleDensity", "solveIncompressibility",
                    "transferVelocities(false)", "handleParticleCollisions",
                    "updateParticleColors", "updateCellColors">>
       /\ Cardinality({k \in DOMAIN t.calls :
                         t.calls[k] = "handleParticleCollisions"}) = 2
       /\ t.integrated
            = integrateParticles(t.pre, P.dtInv, P.gravity, P.dampNum, P.dampDen)
       /\ t.pushed
            = IF P.separateParticles
              THEN pushParticlesApart(t.integrated, P.numParticleIters).f
              ELSE t.integrated
       /\ t.collided
            = handleParticleCollisions(t.pushed, P.obstacleX, P.obstacleY,
                                       P.obstacleRadius, P.obstacleVelX,
                                       P.obstacleVelY)
       /\ t.scattered = transferVelocities(t.collided, TRUE, 0)
       /\ t.scattered.cellType = ClassifyCells(t.collided)
       /\ t.dense = updateParticleDensity(t.scattered)
       /\ t.solved
            = solveIncompressibility(t.dense, P.numPressureIters, P.dtInv,
                                     P.or10, P.compensateDrift)
       /\ t.gathered = transferVelocities(t.solved, FALSE, P.flip10)
       /\ t.final
            = handleParticleCollisions(t.gathered, P.obstacleX, P.obstacleY,
                                       P.obstacleRadius, P.obstacleVelX,
                                       P.obstacleVelY)
       /\ fluid = t.final

\* A tick with separation in which every phase changed the solver, both
\* collision passes included.
PhasesInOrderWitness ==
  /\ AfterTick
  /\ last.params.separateParticles
  /\ LET t == last.phases
     IN /\ t.integrated # t.pre
        /\ t.pushed # t.integrated
        /\ t.collided # t.pushed
        /\ t.scattered # t.collided
        /\ t.dense # t.scattered
        /\ t.solved # t.dense
        /\ t.gathered # t.solved
        /\ t.final # t.gathered


\* The two collision passes of a tick, each as <<solver before, solver after>>.
CollisionPasses(t) == { <<t.pushed, t.collided>>, <<t.gathered, t.final>> }

\* Particle q of solver f is out of the obstacle's reach (line 219 false).
OutOfReach(f, q, P) ==
  /\ ~IsNaN(q.x) /\ ~IsNaN(q.y)
  /\ (q.x - P.obstacleX) * (q.x - P.obstacleX)
     + (q.y - P.obstacleY) * (q.y - P.obstacleY)
       >= (P.obstacleRadius + f.particleRadius) * (P.obstacleRadius + f.particleRadius)

\* C19: in each collision pass a particle below the lower bound h + r comes
\* back in at the top (as far under the upper bound as it was under the
\* lower one, at most), a particle above the upper bound comes back in at
\* the bottom by the amount it overshot, and its vertical velocity is kept.
VerticalWrapPeriodic ==
  AfterTick =>
    \A pass \in CollisionPasses(last.phases) :
      \A i \in Active(pass[1]) :
        LET f == pass[1]
            q == Particle(pass[1], i)
            w == Particle(pass[2], i)
        IN OutOfReach(f, q, last.params) =>
             /\ q.y < WallMinY(f) =>
                  /\ w.y <= WallMaxY(f)
                  /\ w.y >= WallMaxY(f) - (WallMinY(f) - q.y)
                  /\ w.vy = q.vy
             /\ q.y > WallMaxY(f) =>
                  /\ w.y = WallMinY(f) + (q.y - WallMaxY(f))
                  /\ w.vy = q.vy


\* C20: for a particle at distance d from the obstacle centre with
\* 0 < d < obstacleRadius + particleRadius, what the obstacle branch adds to
\* the velocity beyond the obstacle's own velocity points away from the
\* centre, and is as large as a multiple (at most 3) of the squared
\* penetration depth (obstacleRadius + particleRadius - d)^2.
ObstacleRepulsion ==
  AfterTick =>
    \A pass \in CollisionPasses(last.phases) :
      \A i \in Active(pass[1]) :
        LET P == last.params
            q == Particle(pass[1], i)
            minDist == P.obstacleRadius + pass[1].particleRadius
            dx == q.x - P.obstacleX
            dy == q.y - P.obstacleY
        IN (/\ ~IsNaN(q.x) /\ ~IsNaN(q.y) /\ ~IsNaN(q.vx) /\ ~IsNaN(q.vy)
            /\ dx * dx + dy * dy > 0
            /\ dx * dx + dy * dy < minDist * minDist)
           => \E w \in {ObstaclePush(q, P.obstacleX, P.obstacleY, minDist,
                                     P.obstacleVelX, P.obstacleVelY)} :
                LET ex == w.vx - q.vx - P.obstacleVelX
                    ey == w.vy - q.vy - P.obstacleVelY
                    depth == minDist - Sqrt(dx * dx + dy * dy)
                IN /\ ex * dx + ey * dy >= 0
                   /\ ex * ex + ey * ey
                        <= (Rnd(3 * depth * depth, SCALE) + 1)
                           * (Rnd(3 * depth * depth, SCALE) + 1)


\* Cell c of f is SOLID, or the cell on the other side of its u face
\* (component 0) or v face (component 1) is.
TouchesSolid(f, c, component) ==
  \/ f.cellType[c] = SOLID_CELL
  \/ IF component = 0
     THEN c \div f.fNumY > 0 /\ f.cellType[c - f.fNumY] = SOLID_CELL
     ELSE c % f.fNumY > 0 /\ f.cellType[c - 1] = SOLID_CELL

\* C21: after transferVelocities(true), u of every cell that is SOLID or has
\* a SOLID left neighbour, and v of every cell that is SOLID or has a SOLID
\* bottom neighbour, is the value it had before the scatter.
SolidFacesRestored ==
  AfterTick =>
    LET a == last.phases.collided
        b == last.phases.scattered
    IN \A c \in DOMAIN b.cellType :
         /\ TouchesSolid(b, c, 0) => b.u[c] = a.u[c]
         /\ TouchesSolid(b, c, 1) => b.v[c] = a.v[c]

\* A scatter in which a particle put weight on a solid face whose
\* pre-scatter value, set by a drag of the obstacle, is not 0.
SolidFacesWitness ==
  /\ AfterTick
  /\ LET a == last.phases.collided
         b == last.phases.scattered
     IN /\ \E c \in DOMAIN b.cellType :
             TouchesSolid(b, c, 0) /\ b.du[c] > 0 /\ a.u[c] # 0
        /\ \E c \in DOMAIN b.cellType :
             TouchesSolid(b, c, 1) /\ b.dv[c] > 0 /\ a.v[c] # 0


\* The cells the pressure solve relaxes in solver f: interior, FLUID, with
\* a nonzero sum of neighbouring open fractions (lines 455-470).
Relaxable(f) ==
  {c \in InteriorCells(f) : f.cellType[c] = FLUID_CELL /\ OpenNeighbours(f, c) # 0}

\* C22: solveIncompressibility changes u only at the left and right face of
\* a relaxable cell and v only at its bottom and top face, and p only at the
\* cell itself; without a relaxable cell, or with numIters = 0, it leaves u
\* and v as they were and p all zero.
SolveTouchesRelaxedOnly ==
  AfterTick =>
    LET a == last.phases.dense
        b == last.phases.solved
        n == a.fNumY
        R == Relaxable(a)
    IN /\ \A c \in DOMAIN a.u :
            /\ b.u[c] # a.u[c] => (c \in R \/ (c - n) \in R)
            /\ b.v[c] # a.v[c] => (c \in R \/ (c - 1) \in R)
            /\ b.p[c] # 0 => c \in R
       /\ (R = {} \/ last.params.numPressureIters = 0)
            => /\ b.u = a.u
               /\ b.v = a.v
               /\ b.p = Zeros(a.fNumCells)

\* A second tick whose solve changed u, v and p, on a solver whose first
\* solve had left a pressure in a cell that is not relaxable now.
SolveWitness ==
  /\ AfterTick
  /\ ticks >= 2
  /\ LET a == last.phases.dense
         b == last.phases.solved
     IN /\ Relaxable(a) # {}
        /\ b.u # a.u /\ b.v # a.v
        /\ \E c \in DOMAIN a.p : a.p[c] # 0 /\ c \notin Relaxable(a) /\ b.p[c] = 0


\* The slots of hash cell c in cellParticleIds after the build.
Slice(f, c) == f.firstCellParticle[c]..(f.firstCellParticle[c + 1] - 1)

\* C23: after the build phase of pushParticlesApart the slice of every hash
\* cell c holds, once each, the active particles whose clamped hash cell is
\* c and nothing else, and every active particle appears exactly once in
\* cellParticleIds[0 .. numParticles-1].
HashHoldsParticles ==
  (AfterTick /\ last.params.separateParticles) =>
    LET g == last.phases.integrated
        f == last.phases.pushed
    IN /\ \A c \in 0..(f.pNumCells - 1) :
            /\ {f.cellParticleIds[k] : k \in Slice(f, c)}
                 = {i \in Active(g) :
                      HashCell(g, g.particlePos[2 * i], g.particlePos[2 * i + 1]) = c}
            /\ \A k1, k2 \in Slice(f, c) :
                 f.cellParticleIds[k1] = f.cellParticleIds[k2] => k1 = k2
       /\ \A i \in Active(g) :
            Cardinality({k \in 0..(g.numParticles - 1) : f.cellParticleIds[k] = i}) = 1


\* ------------------------------------------------------------------------
\* The driver's animation loop: runLoop, the pause button, reinit and
\* disconnectedCallback
\* ------------------------------------------------------------------------

\* Handles requestAnimationFrame hands out in one behaviour.
MaxRequests == 5

\* requestAnimationFrame(() => this.runLoop()) with the result stored in
\* rafId (fluid-canvas.ts:794, 1064).
requestAnimationFrame(c) ==
  [c EXCEPT !.pending = @ \cup {c.nextId}, !.rafId = c.nextId, !.nextId = @ + 1]

\* A cancelAnimationFrame that does nothing.
cancelNothing(pending, id) == pending

\* cancelAnimationFrame(id): the callback of that handle is dropped.
cancelAnimationFrame(pending, id) == pending \ {id}

\* A loop without the pause check.
simulatesAlways(paused) == TRUE

\* Line 1055: runLoop calls simulate unless paused.
simulatesWhen(paused) == ~paused

\* firstUpdated (fluid-canvas.ts:639-662) has made the scene and is about to
\* call runLoop itself: that call is handle 0 of the current frame.
InitLoop ==
  /\ \E seeds \in TankSeeds :
       \E sc \in {setupScene(TankConfig, seeds, NoObstacle, ParkedObstacle)} :
         fluid = sc.fluid /\ obstacle = sc.obstacle
  /\ ticks = 0
  /\ canvas = [IdleCanvas EXCEPT !.queue = {0}]
  /\ app = IdleApp
  /\ last = [kind |-> "seed"]

\* The browser starts an animation frame: the callbacks requested so far are
\* the ones it will run; what they request goes to the next frame.
BeginFrame ==
  /\ canvas.queue = {}
  /\ canvas.pending # {}
  /\ canvas' = [canvas EXCEPT !.queue = canvas.pending, !.pending = {},
                              !.frameTicks = 0]
  /\ UNCHANGED <<fluid, obstacle, ticks, last, app>>

\* runLoop (fluid-canvas.ts:1054-1065), called for handle id: simulate unless
\* paused, then request the next frame.
runLoop(id) ==
  /\ id \in canvas.queue
  /\ canvas.nextId <= MaxRequests
  /\ IF simulatesWhen(canvas.paused)
     THEN /\ ticks < MaxTicks
          /\ \E args \in {SimulateArgs(DefaultParams, obstacle, TankConfig)} :
               \E t \in {simulate(fluid, args)} :
                 /\ fluid' = t.final
                 /\ last' = [kind |-> "tick", params |-> args, phases |-> t]
          /\ ticks' = ticks + 1
          /\ canvas' = requestAnimationFrame(
                         [canvas EXCEPT !.queue = @ \ {id}, !.frames = @ + 1,
                                        !.frameTicks = @ + 1])
     ELSE /\ last' = [kind |-> "frame"]
          /\ canvas' = requestAnimationFrame(
                         [canvas EXCEPT !.queue = @ \ {id}, !.frames = @ + 1])
          /\ UNCHANGED <<fluid, ticks>>
  /\ UNCHANGED <<obstacle, app>>

\* The pause button (fluid-canvas.ts:1118); event handlers run between
\* animation frames.
togglePause ==
  /\ canvas.queue = {}
  /\ canvas' = [canvas EXCEPT !.paused = ~@]
  /\ last' = [kind |-> "pause"]
  /\ UNCHANGED <<fluid, obstacle, ticks, app>>

\* reinit (fluid-canvas.ts:777-795), on a change of the resolution slider:
\* cancel the handle in rafId, make the scene anew, request a frame.
reinit ==
  /\ canvas.queue = {}
  /\ canvas.nextId <= MaxRequests
  /\ \E seeds \in TankSeeds :
       \E sc \in {setupScene(TankConfig, seeds, obstacle, ParkedObstacle)} :
         fluid' = sc.fluid /\ obstacle' = sc.obstacle
  /\ canvas' = requestAnimationFrame(
                 [canvas EXCEPT !.pending = cancelAnimationFrame(@, canvas.rafId)])
  /\ last' = [kind |-> "seed"]
  /\ UNCHANGED <<ticks, app>>

\* disconnectedCallback (fluid-canvas.ts:664-670).
disconnectedCallback ==
  /\ canvas.queue = {}
  /\ last.kind # "disconnect"
  /\ canvas' = IF canvas.rafId # 0
               THEN [canvas EXCEPT !.pending = cancelAnimationFrame(@, canvas.rafId),
                                   !.rafId = 0]
               ELSE canvas
  /\ last' = [kind |-> "disconnect"]
  /\ UNCHANGED <<fluid, obstacle, ticks, app>>

NextLoop ==
  \/ BeginFrame
  \/ \E id \in canvas.queue : runLoop(id)
  \/ togglePause
  \/ reinit
  \/ disconnectedCallback

SpecLoop == InitLoop /\ [][NextLoop]_vars

\* C24: a call of runLoop while paused leaves the particle positions, the
\* particle velocities and the rest density as they were and takes no tick;
\* a call of runLoop while not paused takes one.
PausedFramesFreeze ==
  [][canvas'.frames # canvas.frames =>
       IF canvas.paused
       THEN /\ fluid'.particlePos = fluid.particlePos
            /\ fluid'.particleVel = fluid.particleVel
            /\ fluid'.particleRestDensity = fluid.particleRestDensity
            /\ ticks' = ticks
       ELSE /\ ticks' = ticks + 1
            /\ fluid' = simulate(fluid, last'.params).final]_vars

\* A frame has gone by without a tick, while paused, on a scene that was
\* ticked before and whose particles are moving.
PausedFrameWitness ==
  /\ last.kind = "frame"
  /\ canvas.paused
  /\ ticks >= 1
  /\ canvas.frames >= 2
  /\ \E k \in DOMAIN fluid.particleVel : fluid.particleVel[k] # 0

\* C26: at most one callback of runLoop is requested or being run at any
\* time, and at most one tick is taken in an animation frame.
AtMostOneCallback ==
  /\ Cardinality(canvas.pending \cup canvas.queue) <= 1
  /\ canvas.frameTicks <= 1

\* A tick taken by the loop after a reinit or more (more handles were handed
\* out than frames have run) and after earlier frames.
OneCallbackWitness ==
  /\ AfterTick
  /\ canvas.frames >= 2
  /\ canvas.nextId > canvas.frames + 1
  /\ Cardinality(canvas.pending) = 1


\* ------------------------------------------------------------------------
\* The scenes of the resolution slider
\* ------------------------------------------------------------------------

\* The settings of the resolution slider (fluid-canvas.ts:1166: min 10,
\* max 100, step 10).
Resolutions == {10 * k : k \in 1..10}

\* What setupScene passes to the constructor at resolution res
\* (fluid-canvas.ts:697-714): the tank is 3.0 * res / 100 wide and high,
\* h = tankHeight / res = 0.03 and r = 0.3 h = 0.009.
SceneConfig(res) ==
  [density |-> 1000, width |-> 30 * res, height |-> 30 * res, spacing |-> 30,
   particleRadius |-> 9]

\* The first one, two or three particles of setupScene's lattice
\* (fluid-canvas.ts:720-725): column 0, rows 0 to 2, with dx = 2r and
\* dy = sqrt(3)/2 * dx.
SceneSeeds ==
  { << <<39, 39>> >>,
    << <<39, 39>>, <<48, 55>> >>,
    << <<39, 39>>, <<48, 55>>, <<39, 70>> >> }

\* The resolution a solver was made for: fNumY = floor(height / h) + 1.
SceneRes(f) == f.fNumY - 1

\* Pointer positions in the scene of resolution res: the middle of the tank
\* and a point left of and above it.
ScenePoints(res) == { <<15 * res, 15 * res>>, <<10 * res, 20 * res>> }

\* The positions of the active particles of f, as a seeding: the scenes
\* are not ticked, so these are the lattice points they were seeded with.
SeedsOf(f) ==
  [i \in 1..f.numParticles |->
     <<f.particlePos[2 * (i - 1)], f.particlePos[2 * (i - 1) + 1]>>]

\* firstUpdated at one of the slider's settings.
InitScene ==
  /\ \E res \in Resolutions, seeds \in SceneSeeds :
       \E sc \in {setupScene(SceneConfig(res), seeds, NoObstacle, ParkedObstacle)} :
         fluid = sc.fluid /\ obstacle = sc.obstacle
  /\ ticks = 0
  /\ canvas = IdleCanvas
  /\ app = IdleApp
  /\ last = [kind |-> "seed"]

\* The slider's change handler (fluid-canvas.ts:1168-1171): resSlider is
\* set and reinit makes the scene for it, with as many particles as before.
resolutionChanged(res) ==
  /\ res # SceneRes(fluid)
  /\ \E seeds \in {SeedsOf(fluid)} :
       \E sc \in {setupScene(SceneConfig(res), seeds, obstacle, ParkedObstacle)} :
         fluid' = sc.fluid /\ obstacle' = sc.obstacle
  /\ last' = [kind |-> "seed"]
  /\ UNCHANGED <<ticks, canvas, app>>

\* startDrag in the scene as it stands.
startDragScene ==
  /\ ~obstacle.mouseDown
  /\ \E pt \in ScenePoints(SceneRes(fluid)) :
       /\ \E so \in {setObstacle(fluid, obstacle, pt[1], pt[2], TRUE,
                                   DefaultParams.dtInv,
                                   obstacleRadius(SceneConfig(SceneRes(fluid))))} :
            fluid' = so.fluid /\ obstacle' = [so.obstacle EXCEPT !.mouseDown = TRUE]
       /\ last' = [kind |-> "pointer", op |-> "startDrag", x |-> pt[1], y |-> pt[2]]
  /\ UNCHANGED <<ticks, canvas, app>>

NextScene ==
  \/ \E res \in Resolutions : resolutionChanged(res)
  \/ startDragScene
  \/ endDrag

SpecScene == InitScene /\ [][NextScene]_vars

\* The squared distance from the obstacle to the nearest position a particle
\* may have between the walls of f.
NearestInWalls2(f, ob) ==
  LET nx == clamp(ob.obstacleX, WallMinX(f), WallMaxX(f))
      ny == clamp(ob.obstacleY, WallMinY(f), WallMaxY(f))
  IN (nx - ob.obstacleX) * (nx - ob.obstacleX)
     + (ny - ob.obstacleY) * (ny - ob.obstacleY)

\* C25: after setupScene, at every setting of the resolution slider, the
\* obstacle parked at (3.0, 2.0) has carved no cell (s is 0 in the left and
\* right column only) and no position between the particle walls is nearer
\* to it than obstacleRadius + particleRadius.
ObstacleParkedOutside ==
  last.kind = "seed" =>
    /\ \A c \in DOMAIN fluid.s :
         fluid.s[c] = 0 =>
           (c \div fluid.fNumY = 0 \/ c \div fluid.fNumY = fluid.fNumX - 1)
    /\ LET minDist == obstacleRadius(SceneConfig(SceneRes(fluid)))
                      + fluid.particleRadius
       IN NearestInWalls2(fluid, obstacle) >= minDist * minDist


\* C27: solveIncompressibility leaves the velocity on every face between two
\* horizontally or vertically adjacent cells of which one has s = 0 as it
\* was before the call.
NoFlowThroughSolids ==
  AfterTick =>
    LET a == last.phases.dense
        b == last.phases.solved
        n == a.fNumY
    IN \A c \in DOMAIN a.s :
         /\ (c \div n > 0 /\ (a.s[c] = 0 \/ a.s[c - n] = 0)) => b.u[c] = a.u[c]
         /\ (c % n > 0 /\ (a.s[c] = 0 \/ a.s[c - 1] = 0)) => b.v[c] = a.v[c]

\* A solve that relaxed a cell next to a solid cell: it got a pressure, its
\* open faces changed, and the face towards the solid carries a velocity.
NoFlowWitness ==
  /\ AfterTick
  /\ LET a == last.phases.dense
         b == last.phases.solved
         n == a.fNumY
     IN \E c \in Relaxable(a) :
          /\ b.p[c] # 0
          /\ \/ a.s[c - n] = 0 /\ a.u[c] # 0 /\ b.u[c + n] # a.u[c + n]
             \/ a.s[c + n] = 0 /\ a.u[c + n] # 0 /\ b.u[c] # a.u[c]
             \/ a.s[c - 1] = 0 /\ a.v[c] # 0
             \/ a.s[c + 1] = 0 /\ a.v[c + 1] # 0


\* div of line 472 for cell c of f.
Divergence(f, c) == f.u[c + f.fNumY] - f.u[c] + f.v[c + 1] - f.v[c]

\* The cell the solve relaxed last: the sweep visits the cells by ascending
\* number, so after the solve nothing has touched its faces since.
LastRelaxed(f) == {c \in Relaxable(f) : \A d \in Relaxable(f) : d <= c}

\* The ticks C28 speaks of: overRelaxation 1, no drift compensation, at
\* least one pressure iteration.
PlainSolve ==
  /\ AfterTick
  /\ last.params.or10 = 10
  /\ ~last.params.compensateDrift
  /\ last.params.numPressureIters > 0

\* C28 as stated: with overRelaxation 1 and without drift compensation the
\* divergence of a cell is exactly 0 right after the cell is relaxed.
RelaxedCellDivergenceFree ==
  PlainSolve =>
    \A c \in LastRelaxed(last.phases.dense) : Divergence(last.phases.solved, c) = 0

\* C28 amended: right after the relaxation the divergence is 0 up to the
\* rounding of p = -div / sNeighbors: at most half a unit of the last place
\* for each open neighbour.
RelaxedCellDivergenceSmall ==
  PlainSolve =>
    \A c \in LastRelaxed(last.phases.dense) :
      2 * Abs(Divergence(last.phases.solved, c)) <= OpenNeighbours(last.phases.dense, c)

\* A plain solve whose last cell has a solid neighbour and gave its faces a
\* correction: it has a pressure.
RelaxedCellWitness ==
  /\ PlainSolve
  /\ \E c \in LastRelaxed(last.phases.dense) :
       /\ OpenNeighbours(last.phases.dense, c) < 4
       /\ last.phases.solved.p[c] # 0
       /\ Abs(Divergence(last.phases.dense, c)) > 4


\* ------------------------------------------------------------------------
\* The drag of integrateParticles, over velocities and damping coefficients
\* ------------------------------------------------------------------------

\* Velocity components of the particle before the integration, from 0.02 to
\* 2 units per second in both directions.
DragVelocities == {-2000, -1500, -500, -20, 0, 20, 500, 1500, 2000}

\* Damping coefficients in hundredths: none, the driver's 0.01
\* (fluid-canvas.ts:595), the default 1.0 of simulate (flip-fluid.ts:583),
\* and 2.0.
DragDampings == {0, 1, 100, 200}

\* The tank with one particle in its middle, moving.
InitDrag ==
  /\ \E vx \in DragVelocities, vy \in DragVelocities :
       \E sc \in {setupScene(TankConfig, << <<250, 250>> >>, NoObstacle,
                             ParkedObstacle)} :
         /\ fluid = [sc.fluid EXCEPT !.particleVel = [k \in 0..1 |->
                                                       IF k = 0 THEN vx ELSE vy]]
         /\ obstacle = sc.obstacle
  /\ ticks = 0
  /\ canvas = IdleCanvas
  /\ app = IdleApp
  /\ last = [kind |-> "seed"]

\* The first call of a tick: integrateParticles(dt, gravity, damping).
integrate(gravity, dampNum) ==
  /\ ticks = 0
  /\ fluid' = integrateParticles(fluid, DefaultParams.dtInv, gravity, dampNum, 100)
  /\ last' = [kind |-> "integrate", pre |-> fluid, gravity |-> gravity,
              dampNum |-> dampNum]
  /\ ticks' = 1
  /\ UNCHANGED <<obstacle, canvas, app>>

NextDrag ==
  \E gravity \in {0, DefaultParams.gravity}, dampNum \in DragDampings :
    integrate(gravity, dampNum)

SpecDrag == InitDrag /\ [][NextDrag]_vars

\* Component k of the velocity of the integration's input after gravity and
\* before the drag (line 104).
BeforeDrag(k) ==
  IF k % 2 = 1
  THEN last.pre.particleVel[k] + Rnd(last.gravity, DefaultParams.dtInv)
  ELSE last.pre.particleVel[k]

\* C29: whatever the damping coefficient (0 or more) and the velocity, the
\* drag of integrateParticles leaves every velocity component with the sign
\* it had, or 0, and with a magnitude that is not larger.
DragOpposesMotion ==
  last.kind = "integrate" =>
    \A k \in DOMAIN fluid.particleVel :
      /\ fluid.particleVel[k] * BeforeDrag(k) >= 0
      /\ Abs(fluid.particleVel[k]) <= Abs(BeforeDrag(k))


\* ------------------------------------------------------------------------
\* The pix2pix component: the Start/Stop button and its inference loop
\* ------------------------------------------------------------------------

\* Calls of runLoop started in one behaviour.
MaxLoops == 3

\* Inferences one call of runLoop requests.
MaxInferences == 3

\* The calls of runLoop that have started and not returned.
ActiveLoops == DOMAIN app.loops

\* f without the entry of k.
Without(f, k) == [j \in (DOMAIN f) \ {k} |-> f[j]]

\* The head of the while loop (index.ts:71).
loopContinues(a) == a.isRunning /\ a.model

\* The component with its fluid canvas mounted, before the model is loaded.
InitApp ==
  /\ \E sc \in {setupScene(TankConfig, << <<250, 250>> >>, NoObstacle,
                           ParkedObstacle)} :
       fluid = sc.fluid /\ obstacle = sc.obstacle
  /\ ticks = 0
  /\ canvas = IdleCanvas
  /\ app = IdleApp
  /\ last = [kind |-> "seed"]

\* loadModel (index.ts:49-59) succeeds: the Start button is enabled.
loadModel ==
  /\ ~app.model
  /\ app' = [app EXCEPT !.model = TRUE]
  /\ last' = [kind |-> "model"]
  /\ UNCHANGED <<fluid, obstacle, ticks, canvas>>

\* handleToggle (index.ts:61-68), on a click of the enabled button: Stop
\* clears isRunning; Start sets it and calls runLoop, which runs to its
\* first await: the new call has requested one inference.
handleToggle ==
  /\ app.model
  /\ IF app.isRunning
     THEN /\ app' = [app EXCEPT !.isRunning = FALSE]
          /\ last' = [kind |-> "stop"]
     ELSE /\ app.started < MaxLoops
          /\ \E a \in {[app EXCEPT !.isRunning = TRUE]} :
               app' = [a EXCEPT !.started = @ + 1,
                                !.loops = IF loopContinues(a)
                                          THEN (app.started + 1 :> 1) @@ app.loops
                                          ELSE app.loops]
          /\ last' = [kind |-> "start", loop |-> app.started + 1]
  /\ UNCHANGED <<fluid, obstacle, ticks, canvas>>

\* The await of runPix2Pix in call k of runLoop returns (index.ts:74-89):
\* with a result, the loop goes back to its head and either requests the
\* next inference or leaves, clearing isRunning; with an exception it
\* breaks and leaves.
inferenceDone(k, ok) ==
  /\ k \in ActiveLoops
  /\ IF ok /\ loopContinues(app)
     THEN /\ app.loops[k] < MaxInferences
          /\ app' = [app EXCEPT !.loops[k] = @ + 1]
     ELSE app' = [app EXCEPT !.isRunning = FALSE, !.loops = Without(app.loops, k)]
  /\ last' = [kind |-> "inference", loop |-> k, ok |-> ok]
  /\ UNCHANGED <<fluid, obstacle, ticks, canvas>>

NextApp ==
  \/ loadModel
  \/ handleToggle
  \/ \E k \in ActiveLoops, ok \in BOOLEAN : inferenceDone(k, ok)

SpecApp == InitApp /\ [][NextApp]_vars

\* C30: whatever the order of the clicks on Start/Stop and the returns of
\* the inferences, at most one call of runLoop has started and not returned.
AtMostOneLoop == Cardinality(ActiveLoops) <= 1

====
